---- MODULE Spec2Model ----
(***************************************************************************)
(* Model of jorkle/jork: the audio Recorder (internal/audio/recorder.go),  *)
(* the audio Player (internal/audio player) and the Bubbletea turn         *)
(* orchestration (internal/app).                                           *)
(*                                                                         *)
(* Three subsystems share this module.  Each has its own initial state and *)
(* next-state relation:                                                    *)
(*   SpecRec / SpecRecSeq   the Recorder with caller threads and the       *)
(*                          PortAudio callback                             *)
(*   SpecPlay / SpecPlayLive the Player with caller threads, one monitor   *)
(*                          goroutine per spawned command and a waiter     *)
(*   SpecUI                 the Model.Update event loop, the tea.Cmd       *)
(*                          goroutines and App                             *)
(***************************************************************************)
EXTENDS Integers, Sequences, FiniteSets, TLC

(***************************************************************************)
(* Bounds                                                                  *)
(***************************************************************************)
\* caller threads that use one Recorder concurrently
NumCallers == 2
\* streams a Recorder may open in one behaviour
MaxStreams == 2
\* total samples the callback delivers into the buffer
MaxSamples == 3
\* samples per callback block: 1..MaxBlock
MaxBlock == 2
\* caller threads that use one Player concurrently
NumPlayers == 2
\* player commands a Player may create in one behaviour
MaxCmds == 3
\* tea.Cmd goroutines in flight at once in the application
MaxTasks == 2
\* GenerateResponse calls that succeed in one behaviour
MaxTurns == 2
\* characters the text input line holds
MaxInput == 1
\* recordings the user of the application starts in one behaviour
MaxRecordings == 1
\* samples of an AudioData given to SaveToWAV, before trailing silence
MaxWavLen == 2
\* largest configured history limit of the conversation log
MaxHistory == 2
\* voice samples whose goroutines are alive at once
MaxSamplings == 1
\* entries of a log GetConversationContext is called with, and the largest
\* maxEntries
MaxContextLog == 3
MaxContext == 2

(***************************************************************************)
(* Program constants                                                       *)
(***************************************************************************)
\* time.Second, in units of time.Duration (nanoseconds)
Second == 1000000000

\* sample values delivered by the input stream
SampleVals == {1, 2}
\* constructor arguments of NewRecorder(sampleRate, channels)
SampleRates == {3, 16000}
ChannelCounts == {1, 2}

\* float32 samples are counted in eighths: m stands for m / 8, so that
\* m * 32767 / 8 has at most 20 significant bits and the float32 product of
\* recorder.go:191 is exact
SampleUnit == 8
\* samples given to SaveToWAV: -2.0, -1.0, -0.625, -0.125, 0, 0.125, 0.625,
\* 1.0 and 1.5
WavSamples == {-16, -8, -5, -1, 0, 1, 5, 8, 12}
\* zero samples (silence) that follow them: none, or two seconds at 16000 Hz
WavSilence == {0, 32000}
\* audioData.SampleRate and r.channels of a SaveToWAV call
WavRates == {16000, 48000}
WavChannelCounts == {1, 2, 4096, 8192}

VARIABLES
    \* ---- Recorder (recorder.go:15-22) ----
    stream,         \* r.stream: 0 is nil, else the id of a stream
    isRecording,    \* r.isRecording
    buffer,         \* r.buffer
    sampleRate,     \* r.sampleRate
    channels,       \* r.channels
    streams,        \* state of each PortAudio stream opened so far
    rpc,            \* position of each caller thread inside StopRecording
    rlast,          \* the most recent return of a Recorder call
    appended,       \* history: samples the callback appended since the last
                    \* successful StartRecording
    startedSince,   \* history: successful StartRecording calls since the last
                    \* StopRecording that passed its isRecording check
    held,           \* the Data slice of the AudioData StopRecording returned
                    \* last, as its holder reads it now
    wav,            \* a SaveToWAV call: its arguments and, once it has
                    \* returned, the file it wrote and its error
    paInitialized   \* PortAudio: calls of portaudio.Initialize not yet
                    \* matched by a portaudio.Terminate

recVars == <<stream, isRecording, buffer, sampleRate, channels, streams,
             rpc, rlast, appended, startedSince, held, wav, paInitialized>>

VARIABLES
    \* ---- Player (player: type Player struct, lines 15-19) ----
    isPlaying,      \* p.isPlaying
    currentCmd,     \* p.currentCmd: 0 is nil, else the id of a command
    pmutex,         \* p.mutex: 0 is free, else the caller thread holding it
                    \* across a blocking call
    tools,          \* the executables exec.LookPath finds
    proc,           \* the process of each command created so far
    mon,            \* whether the monitor goroutine of a command is live
    ppc,            \* position of each caller thread inside the Player
    plast           \* the most recent return of a Player call

playVars == <<isPlaying, currentCmd, pmutex, tools, proc, mon, ppc, plast>>

VARIABLES
    \* ---- Model (ui.go:31-51) ----
    uiState,        \* m.uiState
    textInput,      \* m.textInput
    uiError,        \* m.error
    lastResponse,   \* m.lastResponse: 0 is "", VoicePlayed the fixed text
    recording,      \* m.recording
    selectedMode,   \* m.selectedMode
    isSamplingVoice, \* m.isSamplingVoice
    \* ---- models.AppState (player file: type AppState) ----
    CurrentMode,
    IsRecording,
    IsPlaying,
    IsProcessing,
    LastMessage,
    LastResponse,
    ConversationLog,
    \* ---- config.Config (app.go:19, a.config) ----
    MaxConversationHistory, \* entries the log keeps (50 by default)
    \* ---- goroutines of the application ----
    cmd,            \* the tea.Cmd goroutine of each task slot and its message
    bg,             \* the PlayAudio goroutines the commands have started
    genCount,       \* GenerateResponse calls that have succeeded
    \* ---- ai.GetConversationContext (tts.go:213-241) ----
    context         \* the latest call: entries, maxEntries, messages returned

uiVars == <<uiState, textInput, uiError, lastResponse, recording, selectedMode,
           isSamplingVoice>>
appVars == <<CurrentMode, IsRecording, IsPlaying, IsProcessing, LastMessage,
             LastResponse, ConversationLog>>
cfgVars == <<MaxConversationHistory>>
taskVars == <<cmd, bg, genCount>>

orchVars == <<uiVars, appVars, cfgVars, taskVars, context>>

vars == <<recVars, playVars, orchVars>>


(***************************************************************************)
(* Recorder                                                                *)
(***************************************************************************)
\* thread 0 is the event loop of the application, threads 1..MaxTasks the
\* goroutines of its commands; 1..NumCallers are the callers of a Recorder
\* used on its own
RThreads == 1..NumCallers
RAllThreads == 0..(NumCallers + MaxTasks)
StreamIds == 1..MaxStreams

\* models.AudioData; a nil *AudioData is NoAudio with hasData = FALSE
NoAudio == [Data |-> <<>>, SampleRate |-> 0, Duration |-> 0]

\* floor(n * Second / rate), the value of
\*   time.Duration(n) * time.Second / time.Duration(rate)
\* in 64-bit arithmetic; split so that no intermediate exceeds 32 bits
DurationOf(n, rate) ==
    n * (Second \div rate) + (n * (Second % rate)) \div rate

\* the duration taken from the sample count instead of the frame count
MakeAudioData_NoChannels(buf, rate, ch) ==
    [Data |-> buf, SampleRate |-> rate, Duration |-> DurationOf(Len(buf), rate)]

\* the AudioData StopRecording builds from the buffer (recorder.go:107-115)
MakeAudioData(buf, rate, ch) ==
    [Data |-> buf, SampleRate |-> rate,
     Duration |-> DurationOf(Len(buf) \div ch, rate)]

\* Data: make([]float32, len(r.buffer)) and copy (recorder.go:110, 115): a
\* slice with an array of its own; shared tells whether the slice lies in
\* the array of r.buffer
CopyOf_Shared(buf) == [shared |-> TRUE, Data |-> buf]
CopyOf(buf) == [shared |-> FALSE, Data |-> buf]

\* append(r.buffer, inputBuffer...) (recorder.go:133) writes the block into
\* the array of r.buffer behind its first n elements, the array StartRecording
\* keeps with r.buffer[:0] (recorder.go:50); a slice lying in that array
\* reads the new values
WriteThrough(h, n, inputBuffer) ==
    IF h.shared
    THEN [h EXCEPT !.Data =
            [i \in 1..Len(h.Data) |->
                IF i > n /\ i <= n + Len(inputBuffer)
                THEN inputBuffer[i - n] ELSE h.Data[i]]]
    ELSE h

\* ---- Recorder.SaveToWAV (recorder.go:137-198) ----

\* uint16(x) for x >= 0
Uint16(x) == x % 65536
\* a uint32 is kept as two 16-bit halves, its value being hi * 65536 + lo;
\* uint32(x) for 0 <= x < 2^31
Uint32(x) == [hi |-> (x \div 65536) % 65536, lo |-> x % 65536]
\* a + b in uint32
Add32(a, b) ==
    LET lo == a.lo + b.lo
    IN  [hi |-> (a.hi + b.hi + lo \div 65536) % 65536, lo |-> lo % 65536]
\* a * c in uint32, for c < 2^15
MulSmall32(a, c) ==
    LET lo == a.lo * c
    IN  [hi |-> (a.hi * c + lo \div 65536) % 65536, lo |-> lo % 65536]
\* a * c in uint32, for c < 2^16
Mul32(a, c) ==
    Add32(MulSmall32(MulSmall32(a, c \div 256), 256), MulSmall32(a, c % 256))
\* a / d in uint32, for d < 2^15
Div32(a, d) ==
    [hi |-> a.hi \div d, lo |-> ((a.hi % d) * 65536 + a.lo) \div d]
\* a - 8 in uint32
Minus8(a) == Add32(a, [hi |-> 65535, lo |-> 65528])

\* the header fields SaveToWAV fills in for n samples (recorder.go:145-181);
\* channels, blockAlign and bitsPerSample are uint16, the others uint32
WavHeader(n, rate, ch) ==
    [fileSize |-> Minus8(Add32(Uint32(44), Uint32(n * 2))),
     channels |-> Uint16(ch),
     sampleRate |-> Uint32(rate),
     byteRate |-> Div32(MulSmall32(Mul32(Uint32(rate), Uint16(ch)), 16), 8),
     blockAlign |-> Uint16(Uint16(ch) * 16) \div 8,
     bitsPerSample |-> 16,
     dataSize |-> Uint32(n * 2)]

\* the header as the literal of recorder.go:145-164 has it
NoHeader ==
    [fileSize |-> Uint32(0), channels |-> 0, sampleRate |-> Uint32(0),
     byteRate |-> Uint32(0), blockAlign |-> 0, bitsPerSample |-> 16,
     dataSize |-> Uint32(0)]

\* the integer part of num / den, rounded toward zero
TruncDiv(num, den) == IF num >= 0 THEN num \div den ELSE 0 - ((0 - num) \div den)

\* a conversion to int16 that saturates
Int16Of_Clamped(x) == IF x > 32767 THEN 32767 ELSE IF x < -32768 THEN -32768 ELSE x
\* int16(x) of a float32 x (recorder.go:191), x being integral with
\* |x| < 2^31: the compiled conversion goes through a 32-bit or wider
\* integer and keeps its low 16 bits
Int16Of(x) == ((x + 32768) % 65536) - 32768

\* intSample := int16(sample * 32767) (recorder.go:191)
intSample(sample) == Int16Of(TruncDiv(sample * 32767, SampleUnit))

\* no SaveToWAV call, or one of an empty AudioData that has not run yet
NoWav ==
    [err |-> "none", Data |-> <<>>, silence |-> 0, SampleRate |-> 0,
     header |-> NoHeader, samples |-> <<>>, zeros |-> 0]

\* the Data slices given to SaveToWAV
WavData == UNION {[1..n -> WavSamples] : n \in 0..MaxWavLen}

\* a return of StartRecording or StopRecording by thread t; seq alternates so
\* that two equal returns in a row are still two events; opened is the stream
\* the call opened (0: none)
RecReturn(t, op, err, has, audio, opened) ==
    [thread |-> t, op |-> op, err |-> err, hasData |-> has, audio |-> audio,
     opened |-> opened, seq |-> 1 - rlast.seq]

\* the errors of the Recorder API; "pending" stands for a call that has not
\* returned yet
RecErrs == {"nil", "AlreadyActive", "DeviceFailed", "OpenFailed", "StartFailed",
            "NotActive", "StopFailed", "CloseFailed", "TerminateFailed",
            "pending"}

\* the caller thread t gets the return of its call, when the call returns
RecReturns(t, op, err, has, audio, opened) ==
    rlast' = IF err = "pending" THEN rlast
             ELSE RecReturn(t, op, err, has, audio, opened)

\* the streams not opened yet
FreshStreams == {s \in StreamIds : streams[s] = "none"}
NewStream == CHOOSE s \in FreshStreams : \A o \in FreshStreams : s <= o

\* NewRecorder(rate, ch) (recorder.go:25-38); the constructor takes any two
\* numbers
NewRecorder(rate, ch) ==
    /\ stream = 0
    /\ isRecording = FALSE
    /\ buffer = <<>>
    /\ sampleRate = rate
    /\ channels = ch
    /\ streams = [s \in StreamIds |-> "none"]
    /\ rpc = [t \in RAllThreads |-> "idle"]
    /\ rlast = [thread |-> 0, op |-> "none", err |-> "nil", hasData |-> FALSE,
                audio |-> NoAudio, opened |-> 0, seq |-> 0]
    /\ appended = <<>>
    /\ startedSince = 0
    /\ held = [shared |-> FALSE, Data |-> <<>>]
    /\ paInitialized = 1

InitRec ==
    /\ \E rate \in SampleRates : \E ch \in ChannelCounts : NewRecorder(rate, ch)
    /\ wav = NoWav

\* the check at the head of StartRecording (recorder.go:45)
AlreadyRecording_NoCheck == FALSE
AlreadyRecording == isRecording

\* the check at the head of StopRecording (recorder.go:90)
NotRecording_NoCheck == FALSE
NotRecording == ~isRecording

\* a StartRecording that found no session does not fail on the audio subsystem
StartOutcomes_Reliable == {"ok"}
\* what the audio subsystem can do to a StartRecording that found no session:
\* DefaultInputDevice fails (recorder.go:53-56), OpenStream fails
\* (recorder.go:70-73), stream.Start fails (recorder.go:79-82), all succeed
StartOutcomes == {"nodevice", "openfail", "startfail", "ok"}

\* Recorder.StartRecording: the whole body runs under r.mutex, so it is one
\* step.  outcome is what the audio subsystem does: no default device,
\* OpenStream fails, stream.Start fails, or everything works.  err is the
\* error the call returns
StartRecordingBody(t, err) ==
    /\ rpc[t] = "idle"
    /\ IF AlreadyRecording
       THEN /\ err = "AlreadyActive"
            /\ UNCHANGED <<stream, isRecording, buffer, streams, appended,
                           startedSince>>
       ELSE /\ buffer' = <<>>
            /\ \E outcome \in StartOutcomes :
                 /\ paInitialized = 0 => outcome = "nodevice"
                 /\ CASE outcome = "nodevice" ->
                           /\ err = "DeviceFailed"
                           /\ UNCHANGED <<stream, isRecording, streams, appended,
                                          startedSince>>
                      [] outcome = "openfail" ->
                           /\ err = "OpenFailed"
                           /\ UNCHANGED <<stream, isRecording, streams, appended,
                                          startedSince>>
                      [] outcome = "startfail" ->
                           /\ err = "StartFailed"
                           /\ FreshStreams # {}
                           /\ stream' = NewStream
                           /\ streams' = [streams EXCEPT ![NewStream] = "open"]
                           /\ isRecording' = FALSE
                           /\ UNCHANGED <<appended, startedSince>>
                      [] outcome = "ok" ->
                           /\ err = "nil"
                           /\ FreshStreams # {}
                           /\ stream' = NewStream
                           /\ streams' = [streams EXCEPT ![NewStream] = "started"]
                           /\ isRecording' = TRUE
                           /\ appended' = <<>>
                           /\ startedSince' = startedSince + 1
    /\ UNCHANGED <<sampleRate, channels, rpc, held, wav, paInitialized>>

\* a caller thread calls StartRecording and gets its return
StartRecording(t) ==
    \E err \in RecErrs :
        /\ StartRecordingBody(t, err)
        /\ RecReturns(t, "start", err, FALSE, NoAudio,
                   IF err \in {"nil", "StartFailed"} THEN NewStream ELSE 0)

\* Recorder.StopRecording, first critical section (recorder.go:89-95)
StopRecordingBeginBody(t, err) ==
    /\ rpc[t] = "idle"
    /\ IF NotRecording
       THEN /\ err = "NotActive"
            /\ UNCHANGED <<isRecording, startedSince, rpc>>
       ELSE /\ err = "pending"
            /\ isRecording' = FALSE
            /\ startedSince' = 0
            /\ rpc' = [rpc EXCEPT ![t] = "stop_stream"]
    /\ UNCHANGED <<stream, buffer, sampleRate, channels, streams, appended, held,
                   wav, paInitialized>>

StopRecordingBegin(t) ==
    \E err \in RecErrs :
        /\ StopRecordingBeginBody(t, err)
        /\ RecReturns(t, "stop", err, FALSE, NoAudio, 0)

\* r.stream.Stop(), outside the mutex (recorder.go:97-99); r.stream is read
\* at this moment.  Stopping succeeds only on a started stream, and may fail
\* there too; a failed Stop leaves the stream as it was
StopRecordingStopStreamBody(t, err) ==
    /\ rpc[t] = "stop_stream"
    /\ \E ok \in BOOLEAN :
         IF ok /\ stream # 0 /\ streams[stream] = "started"
         THEN /\ err = "pending"
              /\ streams' = [streams EXCEPT ![stream] = "stopped"]
              /\ rpc' = [rpc EXCEPT ![t] = "stop_close"]
         ELSE /\ err = "StopFailed"
              /\ rpc' = [rpc EXCEPT ![t] = "idle"]
              /\ UNCHANGED streams
    /\ UNCHANGED <<stream, isRecording, buffer, sampleRate, channels, appended,
                   startedSince, held, wav, paInitialized>>

StopRecordingStopStream(t) ==
    \E err \in RecErrs :
        /\ StopRecordingStopStreamBody(t, err)
        /\ RecReturns(t, "stop", err, FALSE, NoAudio, 0)

\* r.stream.Close(), outside the mutex (recorder.go:101-103)
StopRecordingCloseStreamBody(t, err) ==
    /\ rpc[t] = "stop_close"
    /\ \E ok \in BOOLEAN :
         IF ok /\ stream # 0 /\ streams[stream] \in {"open", "started", "stopped"}
         THEN /\ err = "pending"
              /\ streams' = [streams EXCEPT ![stream] = "closed"]
              /\ rpc' = [rpc EXCEPT ![t] = "stop_copy"]
         ELSE /\ err = "CloseFailed"
              /\ rpc' = [rpc EXCEPT ![t] = "idle"]
              /\ UNCHANGED streams
    /\ UNCHANGED <<stream, isRecording, buffer, sampleRate, channels, appended,
                   startedSince, held, wav, paInitialized>>

StopRecordingCloseStream(t) ==
    \E err \in RecErrs :
        /\ StopRecordingCloseStreamBody(t, err)
        /\ RecReturns(t, "stop", err, FALSE, NoAudio, 0)

\* second critical section: duration and defensive copy (recorder.go:105-117)
StopRecordingCopyBody(t, err) ==
    /\ rpc[t] = "stop_copy"
    /\ err = "nil"
    /\ rpc' = [rpc EXCEPT ![t] = "idle"]
    /\ held' = CopyOf(buffer)
    /\ UNCHANGED <<stream, isRecording, buffer, sampleRate, channels, streams,
                   appended, startedSince, wav, paInitialized>>

StopRecordingCopy(t) ==
    \E err \in RecErrs :
        /\ StopRecordingCopyBody(t, err)
        /\ RecReturns(t, "stop", err, TRUE,
                   MakeAudioData(buffer, sampleRate, channels), 0)

\* Recorder.recordCallback, under r.mutex: PortAudio delivers a block of a
\* started stream
recordCallback(s) ==
    /\ streams[s] = "started"
    /\ \E k \in 1..MaxBlock : \E inputBuffer \in [1..k -> SampleVals] :
         /\ Len(buffer) + k <= MaxSamples
         /\ Len(appended) + k <= MaxSamples
         /\ buffer' = buffer \o inputBuffer
         /\ appended' = appended \o inputBuffer
         /\ held' = WriteThrough(held, Len(buffer), inputBuffer)
    /\ UNCHANGED <<stream, isRecording, sampleRate, channels, streams, rpc, rlast,
                   startedSince, wav, paInitialized>>

\* the condition of the forced stop in Close (recorder.go:205)
SessionOpen_Never == FALSE
SessionOpen == isRecording /\ stream # 0

\* portaudio.Terminate(): the call that matches the last Initialize shuts
\* PortAudio down, which closes every stream still open; a call with no
\* Initialize to match fails and changes nothing.  strs is the state of the
\* streams when it is called
Terminate(strs, err) ==
    IF paInitialized = 0
    THEN /\ err = "TerminateFailed"
         /\ streams' = strs
         /\ UNCHANGED paInitialized
    ELSE /\ err = "nil"
         /\ paInitialized' = paInitialized - 1
         /\ streams' = [s \in StreamIds |->
                          IF paInitialized = 1 /\ strs[s] # "none"
                          THEN "closed" ELSE strs[s]]

\* Recorder.Close (recorder.go:201-212), one step under r.mutex.  The errors
\* of r.stream.Stop() and r.stream.Close() are dropped: Stop may fail, and
\* Close closes the stream, stopped or not, unless it fails too
CloseBody(t, err) ==
    /\ rpc[t] = "idle"
    /\ IF SessionOpen
       THEN /\ isRecording' = FALSE
            /\ \E stopOk \in BOOLEAN : \E closeOk \in BOOLEAN :
                 Terminate([streams EXCEPT ![stream] =
                              IF closeOk THEN "closed"
                              ELSE IF stopOk /\ @ = "started" THEN "stopped"
                              ELSE @], err)
       ELSE /\ UNCHANGED isRecording
            /\ Terminate(streams, err)
    /\ UNCHANGED <<stream, buffer, sampleRate, channels, rpc, appended,
                   startedSince, held, wav>>

\* a caller thread calls Close and gets its return
Close(t) ==
    \E err \in RecErrs :
        /\ CloseBody(t, err)
        /\ RecReturns(t, "close", err, FALSE, NoAudio, 0)

\* Recorder.SaveToWAV (recorder.go:137-198) of the AudioData in wav, whose
\* Data is wav.Data followed by wav.silence zero samples.  os.Create can
\* fail, the write of the header can fail, and the write of a sample can fail
\* after some samples have been written; the call reads r.channels and takes
\* no lock
SaveToWAV ==
    /\ wav.err = "none"
    /\ \E err \in {"nil", "CreateFailed", "HeaderFailed", "DataFailed"} :
       \E written \in 0..Len(wav.Data) :
         /\ err # "DataFailed" => written = Len(wav.Data)
         /\ err = "DataFailed" => written < Len(wav.Data) + wav.silence
         /\ wav' = [wav EXCEPT
                      !.err = err,
                      !.header = IF err \in {"nil", "DataFailed"}
                                 THEN WavHeader(Len(wav.Data) + wav.silence,
                                                wav.SampleRate, channels)
                                 ELSE NoHeader,
                      !.samples = IF err \in {"nil", "DataFailed"}
                                  THEN [i \in 1..written |-> intSample(wav.Data[i])]
                                  ELSE <<>>,
                      !.zeros = IF err = "nil" THEN wav.silence ELSE 0]
    /\ UNCHANGED <<stream, isRecording, buffer, sampleRate, channels, streams,
                   rpc, rlast, appended, startedSince, held, paInitialized>>

(***************************************************************************)
(* Player                                                                  *)
(***************************************************************************)
\* 1..NumPlayers are the callers of a Player used on its own; in the
\* application thread 0 is the event loop and threads 1..MaxTurns are the
\* PlayAudio goroutines
PThreads == 1..NumPlayers
PAllThreads == 0..(NumPlayers + MaxTurns)
CmdIds == 1..MaxCmds

\* the executables the Player looks up
Tools == {"aplay", "paplay", "ffplay", "mpg123", "ffmpeg"}

\* the installations a Player runs on: one for every branch of the two
\* fallback chains
ToolEnvs == {{}, {"aplay"}, {"mpg123"}, {"ffplay"}, {"paplay"},
             {"paplay", "ffmpeg"}, Tools}

\* a return of a Player call by thread t; exists is whether the file of a
\* play call existed, c the command it created (0: none), player the
\* executable of that command
PlayReturn(t, op, err, exists, c, player) ==
    [thread |-> t, op |-> op, err |-> err, exists |-> exists, cmd |-> c,
     player |-> player, seq |-> 1 - plast.seq]

\* the errors of the Player API; "pending" stands for a call that has not
\* returned yet
PlayErrs == {"nil", "AlreadyPlaying", "FileNotFound", "NoPlayer", "NoFFmpeg",
             "ConvertFailed", "NotPlaying", "Panic", "KillFailed",
             "Unsupported", "WriteFailed", "pending"}

\* the caller thread t gets the return of its call, when the call returns
PlayReturns(t, op, err, exists, c, player) ==
    plast' = IF err = "pending" THEN plast
             ELSE PlayReturn(t, op, err, exists, c, player)

FreshCmds == {c \in CmdIds : proc[c] = "none"}
NewCmd == CHOOSE c \in FreshCmds : \A o \in FreshCmds : c <= o

InitPlay ==
    /\ isPlaying = FALSE
    /\ currentCmd = 0
    /\ pmutex = 0
    /\ tools \in ToolEnvs
    /\ proc = [c \in CmdIds |-> "none"]
    /\ mon = [c \in CmdIds |-> FALSE]
    /\ ppc = [t \in PAllThreads |-> "idle"]
    /\ plast = [thread |-> 0, op |-> "none", err |-> "nil", exists |-> FALSE,
                cmd |-> 0, player |-> "none", seq |-> 0]

\* the check at the head of PlayFile and PlayMP3File (player:64, 115)
AlreadyPlaying_NoCheck == FALSE
AlreadyPlaying == isPlaying

\* os.IsNotExist(err) of os.Stat(filename) (player:69, 120)
FileMissing_NoCheck(exists) == FALSE
FileMissing(exists) == ~exists

\* the fallback chain of PlayFile (player:77-87)
WavPlayer_PaplayFirst ==
    IF "paplay" \in tools THEN "paplay"
    ELSE IF "aplay" \in tools THEN "aplay"
    ELSE IF "ffplay" \in tools THEN "ffplay"
    ELSE "none"
WavPlayer ==
    IF "aplay" \in tools THEN "aplay"
    ELSE IF "paplay" \in tools THEN "paplay"
    ELSE IF "ffplay" \in tools THEN "ffplay"
    ELSE "none"

\* the fallback chain of PlayMP3File (player:127-136); "convert" is the
\* branch that calls playMP3WithFFmpeg
Mp3Player ==
    IF "mpg123" \in tools THEN "mpg123"
    ELSE IF "ffplay" \in tools THEN "ffplay"
    ELSE IF "paplay" \in tools THEN "convert"
    ELSE "none"

\* p.currentCmd = cmd; p.isPlaying = true; go func() { ... cmd.Run() ... }()
\* (player:89-105, 138-153)
Spawn ==
    /\ FreshCmds # {}
    /\ proc' = [proc EXCEPT ![NewCmd] = "created"]
    /\ mon' = [mon EXCEPT ![NewCmd] = TRUE]
    /\ currentCmd' = NewCmd
    /\ isPlaying' = TRUE

\* a thread that returns from the body of PlayFile: a direct caller is idle
\* again; when PlayFile was called by playMP3WithFFmpeg, PlayMP3File returns
\* too and its deferred Unlock releases the mutex
PlayFileReturns(t) == ppc' = [ppc EXCEPT ![t] = "idle"]

\* Player.PlayFile (player:60-108).  p.mutex.Lock() needs the mutex free,
\* also when the caller is playMP3WithFFmpeg, which runs inside PlayMP3File
\* with the mutex held.  exists is whether the file exists, err the error
\* the call returns
PlayFileBody(t, exists, err) ==
    /\ ppc[t] \in {"idle", "nested_playfile"}
    /\ pmutex = 0
    /\ IF AlreadyPlaying
       THEN /\ err = "AlreadyPlaying"
            /\ UNCHANGED <<isPlaying, currentCmd, proc, mon>>
       ELSE IF FileMissing(exists)
       THEN /\ err = "FileNotFound"
            /\ UNCHANGED <<isPlaying, currentCmd, proc, mon>>
       ELSE IF WavPlayer = "none"
       THEN /\ err = "NoPlayer"
            /\ UNCHANGED <<isPlaying, currentCmd, proc, mon>>
       ELSE /\ err = "nil"
            /\ Spawn
    /\ PlayFileReturns(t)
    /\ UNCHANGED <<pmutex, tools>>

\* a caller thread calls PlayFile and gets its return
PlayFile(t) ==
    \E exists \in BOOLEAN : \E err \in PlayErrs :
        /\ PlayFileBody(t, exists, err)
        /\ PlayReturns(t, "PlayFile", err, exists,
                    IF err = "nil" THEN NewCmd ELSE 0,
                    IF err = "nil" THEN WavPlayer ELSE "none")

\* Player.PlayMP3File (player:111-156) up to the call of playMP3WithFFmpeg
\* and, in that branch, playMP3WithFFmpeg up to convertCmd.Run()
\* (player:159-174): the thread keeps the mutex while ffmpeg runs.  As in
\* PlayFile, p.mutex.Lock() needs the mutex free also when the caller is
\* StreamAudioFromReader, which holds it
PlayMP3FileBody(t, exists, err) ==
    /\ ppc[t] \in {"idle", "nested_playmp3"}
    /\ pmutex = 0
    /\ IF AlreadyPlaying
       THEN /\ err = "AlreadyPlaying"
            /\ UNCHANGED <<isPlaying, currentCmd, proc, mon, pmutex>>
            /\ PlayFileReturns(t)
       ELSE IF FileMissing(exists)
       THEN /\ err = "FileNotFound"
            /\ UNCHANGED <<isPlaying, currentCmd, proc, mon, pmutex>>
            /\ PlayFileReturns(t)
       ELSE IF Mp3Player = "none"
       THEN /\ err = "NoPlayer"
            /\ UNCHANGED <<isPlaying, currentCmd, proc, mon, pmutex>>
            /\ PlayFileReturns(t)
       ELSE IF Mp3Player = "convert"
       THEN IF "ffmpeg" \notin tools
            THEN /\ err = "NoFFmpeg"
                 /\ UNCHANGED <<isPlaying, currentCmd, proc, mon, pmutex>>
                 /\ PlayFileReturns(t)
            ELSE /\ err = "pending"
                 /\ pmutex' = t
                 /\ ppc' = [ppc EXCEPT ![t] = "mp3_convert"]
                 /\ UNCHANGED <<isPlaying, currentCmd, proc, mon>>
       ELSE /\ err = "nil"
            /\ Spawn
            /\ UNCHANGED pmutex
            /\ PlayFileReturns(t)
    /\ UNCHANGED tools

PlayMP3File(t) ==
    \E exists \in BOOLEAN : \E err \in PlayErrs :
        /\ PlayMP3FileBody(t, exists, err)
        /\ PlayReturns(t, "PlayMP3File", err, exists,
                    IF err = "nil" THEN NewCmd ELSE 0,
                    IF err = "nil" THEN Mp3Player ELSE "none")

\* playMP3WithFFmpeg: convertCmd.Run() returns (player:175-180); on success
\* the thread goes on to call p.PlayFile with the mutex still held
PlayMP3ConvertBody(t, err) ==
    /\ ppc[t] = "mp3_convert"
    /\ \E ok \in BOOLEAN :
         IF ok
         THEN /\ err = "pending"
              /\ ppc' = [ppc EXCEPT ![t] = "nested_playfile"]
              /\ UNCHANGED pmutex
         ELSE /\ err = "ConvertFailed"
              /\ ppc' = [ppc EXCEPT ![t] = "idle"]
              /\ pmutex' = 0
    /\ UNCHANGED <<isPlaying, currentCmd, tools, proc, mon>>

PlayMP3Convert(t) ==
    \E err \in PlayErrs :
        /\ PlayMP3ConvertBody(t, err)
        /\ PlayReturns(t, "PlayMP3File", err, TRUE, 0, "none")

\* Player.StreamAudioFromReader (player:243-286) up to its call of PlayFile or
\* PlayMP3File.  The thread locks p.mutex, with the Unlock deferred to its
\* return, copies the reader to a temporary file and calls the file-based
\* operation with the mutex still held
StreamAudioFromReader(t) ==
    /\ ppc[t] = "idle"
    /\ pmutex = 0
    /\ \E format \in {"mp3", "wav", "ogg"} : \E written \in BOOLEAN :
       \E err \in PlayErrs :
         /\ IF AlreadyPlaying
            THEN /\ err = "AlreadyPlaying"
                 /\ UNCHANGED <<pmutex, ppc>>
            ELSE IF format \notin {"mp3", "wav"}
            THEN /\ err = "Unsupported"
                 /\ UNCHANGED <<pmutex, ppc>>
            ELSE IF ~written
            THEN /\ err = "WriteFailed"
                 /\ UNCHANGED <<pmutex, ppc>>
            ELSE /\ err = "pending"
                 /\ pmutex' = t
                 /\ ppc' = [ppc EXCEPT ![t] = IF format = "mp3"
                                               THEN "nested_playmp3"
                                               ELSE "nested_playfile"]
         /\ PlayReturns(t, "StreamAudioFromReader", err, written, 0, "none")
    /\ UNCHANGED <<isPlaying, currentCmd, tools, proc, mon>>

\* Player.PlayAudioData (player:29-57) up to its call of PlayFile: the same
\* with the samples saved by SaveToWAV to the temporary file
PlayAudioData(t) ==
    /\ ppc[t] = "idle"
    /\ pmutex = 0
    /\ \E written \in BOOLEAN : \E err \in PlayErrs :
         /\ IF AlreadyPlaying
            THEN /\ err = "AlreadyPlaying"
                 /\ UNCHANGED <<pmutex, ppc>>
            ELSE IF ~written
            THEN /\ err = "WriteFailed"
                 /\ UNCHANGED <<pmutex, ppc>>
            ELSE /\ err = "pending"
                 /\ pmutex' = t
                 /\ ppc' = [ppc EXCEPT ![t] = "nested_playfile"]
         /\ PlayReturns(t, "PlayAudioData", err, written, 0, "none")
    /\ UNCHANGED <<isPlaying, currentCmd, tools, proc, mon>>

\* Player.StopPlayback (player:184-201).  currentCmd.Process is nil until the
\* monitor goroutine has started the process, and stays nil when the start
\* failed: Kill on it is a nil dereference.  Kill of a process that has
\* exited fails once the goroutine's Wait has reaped it, and succeeds before
StopPlaybackBody(t, err) ==
    /\ ppc[t] = "idle"
    /\ pmutex = 0
    /\ IF ~isPlaying \/ currentCmd = 0
       THEN /\ err = "NotPlaying"
            /\ UNCHANGED <<isPlaying, currentCmd, proc>>
       ELSE IF proc[currentCmd] \in {"created", "startfailed"}
       THEN /\ err = "Panic"
            /\ UNCHANGED <<isPlaying, currentCmd, proc>>
       ELSE \E killed \in BOOLEAN :
              IF proc[currentCmd] = "running" \/ killed
              THEN /\ err = "nil"
                   /\ proc' = [proc EXCEPT ![currentCmd] =
                                 IF @ = "running" THEN "killed" ELSE @]
                   /\ isPlaying' = FALSE
                   /\ currentCmd' = 0
              ELSE /\ err = "KillFailed"
                   /\ UNCHANGED <<isPlaying, currentCmd, proc>>
    /\ UNCHANGED <<pmutex, tools, mon, ppc>>

StopPlayback(t) ==
    \E err \in PlayErrs :
        /\ StopPlaybackBody(t, err)
        /\ PlayReturns(t, "StopPlayback", err, FALSE,
                    IF err = "NotPlaying" THEN 0 ELSE currentCmd, "none")

\* Player.WaitForPlayback (player:211-215): one pass of the loop.  IsPlaying
\* takes the read lock, which needs the mutex free
WaitForPlaybackBody(t, err) ==
    /\ ppc[t] \in {"idle", "waiting"}
    /\ pmutex = 0
    /\ IF isPlaying
       THEN /\ err = "pending"
            /\ ppc' = [ppc EXCEPT ![t] = "waiting"]
       ELSE /\ err = "nil"
            /\ ppc' = [ppc EXCEPT ![t] = "idle"]
    /\ UNCHANGED <<isPlaying, currentCmd, pmutex, tools, proc, mon>>

WaitForPlayback(t) ==
    \E err \in PlayErrs :
        /\ WaitForPlaybackBody(t, err)
        /\ PlayReturns(t, "WaitForPlayback", err, FALSE, 0, "none")

\* the monitor goroutine reaches cmd.Run(): the process starts, or fails to
\* start (player:101, 150)
MonitorStart(c) ==
    /\ proc[c] = "created"
    /\ \E ok \in BOOLEAN :
         proc' = [proc EXCEPT ![c] = IF ok THEN "running" ELSE "startfailed"]
    /\ UNCHANGED <<isPlaying, currentCmd, pmutex, tools, mon, ppc, plast>>

\* the player process exits on its own
ProcessExit(c) ==
    /\ proc[c] = "running"
    /\ proc' = [proc EXCEPT ![c] = "exited"]
    /\ UNCHANGED <<isPlaying, currentCmd, pmutex, tools, mon, ppc, plast>>

\* cmd.Run() has returned; the deferred function of the monitor goroutine
\* runs under the mutex (player:94-99, 143-148)
MonitorCleanup(c) ==
    /\ mon[c]
    /\ proc[c] \in {"exited", "killed", "startfailed"}
    /\ pmutex = 0
    /\ isPlaying' = FALSE
    /\ currentCmd' = 0
    /\ mon' = [mon EXCEPT ![c] = FALSE]
    /\ UNCHANGED <<pmutex, tools, proc, ppc, plast>>

(***************************************************************************)
(* Application: App (app.go), its commands (commands.go), Model (ui.go)    *)
(***************************************************************************)
TaskIds == 1..MaxTasks
\* a PlayAudio goroutine is started after a successful GenerateResponse only
GoIds == 1..MaxTurns
\* the goroutines of the voice samples started in the settings screen
SampleIds == (MaxTurns + 1)..(MaxTurns + MaxSamplings)

\* models.CommunicationMode (iota)
TextToVoice == 0
VoiceToText == 1
TextToText == 2
VoiceToVoice == 3

\* the text "[Voice response played]" as a response (commands.go:100-103)
VoicePlayed == -1

\* the keys a user presses in the main menu, the mode selection, the
\* conversation, the recording and the processing screen
Keys == {"esc", "enter", "ctrl+r", "backspace", "x", "1", "3", "up", "down"}
\* cfg.DefaultMode
Modes == {TextToVoice, VoiceToText, TextToText, VoiceToVoice}
\* the characters typed into the conversation
Typed == {"x"}
\* what SpeechToText returns for a recording
Transcription == <<"t">>

\* strings.TrimSpace
RECURSIVE TrimLeft(_)
TrimLeft(s) == IF s # <<>> /\ Head(s) = " " THEN TrimLeft(Tail(s)) ELSE s
RECURSIVE TrimRight(_)
TrimRight(s) ==
    IF s # <<>> /\ s[Len(s)] = " " THEN TrimRight(SubSeq(s, 1, Len(s) - 1)) ELSE s
TrimSpace(s) == TrimRight(TrimLeft(s))

\* a task slot without a command
NoTask ==
    [kind |-> "none", pc |-> "none", input |-> <<>>, resp |-> 0, out |-> 0,
     err |-> "nil", audioErr |-> "none", local |-> <<>>, appends |-> 0]
\* a command as the event loop hands it to a goroutine
NewTask(kind, input) == [NoTask EXCEPT !.kind = kind, !.pc = "start", !.input = input]

\* slots whose command has delivered its message
FreeTasks == {k \in TaskIds : cmd[k].kind = "none"}
FreeTask == CHOOSE k \in FreeTasks : \A o \in FreeTasks : k <= o

\* the event loop runs one Update at a time; it is inside app.StopRecording
\* while thread 0 is in the Recorder
LoopIdle == rpc[0] = "idle"

\* no call of GetConversationContext has been made
NoContext == [entries |-> <<>>, maxEntries |-> -1, messages |-> <<>>]

\* NewModel (ui.go:54-65) and the AppState of NewApp (app.go:49-56), whose
\* mode is the configured cfg.DefaultMode
InitApp ==
    /\ uiState = "MainMenu"
    /\ textInput = <<>>
    /\ uiError = ""
    /\ lastResponse = 0
    /\ recording = FALSE
    /\ CurrentMode \in Modes
    /\ selectedMode = CurrentMode
    /\ isSamplingVoice = FALSE
    /\ IsRecording = FALSE
    /\ IsPlaying = FALSE
    /\ IsProcessing = FALSE
    /\ LastMessage = <<>>
    /\ LastResponse = 0
    /\ ConversationLog = <<>>
    /\ MaxConversationHistory \in 1..MaxHistory
    /\ cmd = [k \in TaskIds |-> NoTask]
    /\ bg = [g \in GoIds \cup SampleIds |-> "none"]
    /\ genCount = 0
    /\ context = NoContext

\* a.state.ConversationLog = append(a.state.ConversationLog, entry)
\* (app.go:123)
AppendEntry_Dropped(log, entry) == log
AppendEntry(log, entry) == Append(log, entry)

\* keep only the last MaxConversationHistory entries (app.go:126-128)
Truncate(log) ==
    IF Len(log) > MaxConversationHistory
    THEN SubSeq(log, Len(log) - MaxConversationHistory + 1, Len(log))
    ELSE log

\* the mode check of ProcessTextCmd (commands.go:72) and of ProcessVoiceCmd
\* (commands.go:94)
WantsVoice(kind) ==
    IF kind = "text" THEN CurrentMode \in {TextToVoice, VoiceToVoice}
    ELSE CurrentMode = VoiceToVoice

\* Response of the ProcessingCompletedMsg (commands.go:78-81, 100-107)
MsgResponse(kind, resp) ==
    IF kind = "voice" /\ CurrentMode = VoiceToVoice THEN VoicePlayed ELSE resp

\* ---- Model.handle...Keys: one key press handled by Update ----

\* handleMainMenuKeys (ui.go:165-186)
handleMainMenuKeys ==
    /\ LoopIdle
    /\ uiState = "MainMenu"
    /\ \E key \in Keys \cup {"5"} :
         uiState' = CASE key = "1" -> "ModeSelection"
                      [] key = "3" -> "Conversation"
                      [] key = "5" -> "Settings"
                      [] OTHER -> uiState
    /\ UNCHANGED <<textInput, uiError, lastResponse, recording, selectedMode, isSamplingVoice>>
    /\ UNCHANGED <<recVars, playVars, appVars, cfgVars, context, taskVars>>

\* handleModeSelectionKeys (ui.go:189-211) with App.SetMode (app.go:272-274)
handleModeSelectionKeys ==
    /\ LoopIdle
    /\ uiState = "ModeSelection"
    /\ \E key \in Keys :
         CASE key = "esc" ->
                /\ uiState' = "MainMenu"
                /\ UNCHANGED <<selectedMode, CurrentMode>>
           [] key = "up" ->
                /\ selectedMode' = IF selectedMode > 0 THEN selectedMode - 1
                                   ELSE selectedMode
                /\ UNCHANGED <<uiState, CurrentMode>>
           [] key = "down" ->
                /\ selectedMode' = IF selectedMode < 3 THEN selectedMode + 1
                                   ELSE selectedMode
                /\ UNCHANGED <<uiState, CurrentMode>>
           [] key = "enter" ->
                /\ CurrentMode' = selectedMode
                /\ uiState' = "MainMenu"
                /\ UNCHANGED selectedMode
           [] OTHER -> UNCHANGED <<uiState, selectedMode, CurrentMode>>
    /\ UNCHANGED <<textInput, uiError, lastResponse, recording, isSamplingVoice>>
    /\ UNCHANGED <<IsRecording, IsPlaying, IsProcessing, LastMessage, LastResponse,
                   ConversationLog, MaxConversationHistory, context>>
    /\ UNCHANGED <<recVars, playVars, taskVars>>

\* handleConversationSubmit (ui.go:263-274)
handleConversationSubmit ==
    IF TrimSpace(textInput) = <<>>
    THEN UNCHANGED <<uiState, textInput, uiError, cmd>>
    ELSE /\ FreeTasks # {}
         /\ textInput' = <<>>
         /\ uiState' = "Processing"
         /\ uiError' = ""
         /\ cmd' = [cmd EXCEPT ![FreeTask] = NewTask("text", TrimSpace(textInput))]

\* the recordings started or about to be: the streams opened and the
\* StartRecordingCmd not run yet
Recordings ==
    Cardinality(StreamIds \ FreshStreams)
    + Cardinality({k \in TaskIds : cmd[k].kind = "startrec" /\ cmd[k].pc = "start"})

\* the mode check of handleVoiceInput (ui.go:278): voice input is taken in
\* the two voice-input modes
VoiceInputSupported_Always == TRUE
VoiceInputSupported == CurrentMode = VoiceToText \/ CurrentMode = VoiceToVoice

\* handleVoiceInput (ui.go:277-285)
handleVoiceInput ==
    IF ~VoiceInputSupported
    THEN /\ uiError' = "VoiceUnsupported"
         /\ UNCHANGED <<uiState, textInput, cmd>>
    ELSE /\ FreeTasks # {}
         /\ Recordings < MaxRecordings
         /\ cmd' = [cmd EXCEPT ![FreeTask] = NewTask("startrec", <<>>)]
         /\ UNCHANGED <<uiState, textInput, uiError>>

\* handleConversationKeys (ui.go:238-260)
handleConversationKeys ==
    /\ LoopIdle
    /\ uiState = "Conversation"
    /\ \E key \in Keys :
         CASE key = "esc" ->
                /\ uiState' = "MainMenu"
                /\ UNCHANGED <<textInput, uiError, cmd>>
           [] key = "enter" -> handleConversationSubmit
           [] key = "ctrl+r" -> handleVoiceInput
           [] key = "backspace" ->
                /\ textInput' = IF Len(textInput) > 0
                                THEN SubSeq(textInput, 1, Len(textInput) - 1)
                                ELSE textInput
                /\ UNCHANGED <<uiState, uiError, cmd>>
           [] key \in Typed ->
                /\ Len(textInput) < MaxInput
                /\ textInput' = Append(textInput, key)
                /\ UNCHANGED <<uiState, uiError, cmd>>
           [] OTHER -> UNCHANGED <<uiState, textInput, uiError, cmd>>
    /\ UNCHANGED <<lastResponse, recording, selectedMode, isSamplingVoice, bg, genCount>>
    /\ UNCHANGED <<recVars, playVars, appVars, cfgVars, context>>

\* the steps of Recorder.StopRecording after its first critical section
StopRecordingRestBody(t, err) ==
    \/ StopRecordingStopStreamBody(t, err)
    \/ StopRecordingCloseStreamBody(t, err)
    \/ StopRecordingCopyBody(t, err)

\* handleRecordingKeys (ui.go:288-299).  "enter" issues a StopRecordingCmd;
\* "esc" calls app.StopRecording (app.go:189-201) inside
\* Update, which returns at once when the app or the Recorder is not
\* recording
handleRecordingKeys ==
    /\ LoopIdle
    /\ uiState = "Recording"
    /\ \E key \in Keys :
         CASE key = "enter" ->
                /\ FreeTasks # {}
                /\ cmd' = [cmd EXCEPT ![FreeTask] = NewTask("stoprec", <<>>)]
                /\ UNCHANGED <<uiState, recording, recVars>>
           [] key = "esc" ->
                /\ IF ~IsRecording
                   THEN /\ recording' = FALSE
                        /\ uiState' = "Conversation"
                        /\ UNCHANGED recVars
                   ELSE \E err \in RecErrs :
                          /\ StopRecordingBeginBody(0, err)
                          /\ UNCHANGED rlast
                          /\ IF err # "pending"
                             THEN /\ recording' = FALSE
                                  /\ uiState' = "Conversation"
                             ELSE UNCHANGED <<uiState, recording>>
                /\ UNCHANGED cmd
           [] OTHER -> UNCHANGED <<uiState, recording, cmd, recVars>>
    /\ UNCHANGED <<textInput, uiError, lastResponse, selectedMode, isSamplingVoice, bg, genCount>>
    /\ UNCHANGED <<playVars, appVars, cfgVars, context>>

\* the event loop inside app.StopRecording (app.go:194-200), then the rest
\* of the "esc" branch of handleRecordingKeys (ui.go:294-297)
handleRecordingKeysStop ==
    /\ ~LoopIdle
    /\ \E err \in RecErrs :
         /\ StopRecordingRestBody(0, err)
         /\ UNCHANGED rlast
         /\ IF err # "pending"
            THEN /\ IsRecording' = IF err = "nil" THEN FALSE ELSE IsRecording
                 /\ recording' = FALSE
                 /\ uiState' = "Conversation"
            ELSE UNCHANGED <<IsRecording, recording, uiState>>
    /\ UNCHANGED <<textInput, uiError, lastResponse, selectedMode, isSamplingVoice>>
    /\ UNCHANGED <<CurrentMode, IsPlaying, IsProcessing, LastMessage, LastResponse,
                   ConversationLog, MaxConversationHistory, context>>
    /\ UNCHANGED <<playVars, taskVars>>

\* a cancellation that empties the log
handleProcessingKeys_DiscardsLog ==
    /\ LoopIdle
    /\ uiState = "Processing"
    /\ \E key \in Keys :
         /\ uiState' = IF key = "esc" THEN "Conversation" ELSE uiState
         /\ ConversationLog' = IF key = "esc" THEN <<>> ELSE ConversationLog
    /\ UNCHANGED <<textInput, uiError, lastResponse, recording, selectedMode, isSamplingVoice>>
    /\ UNCHANGED <<CurrentMode, IsRecording, IsPlaying, IsProcessing, LastMessage,
                   LastResponse>>
    /\ UNCHANGED <<recVars, playVars, cfgVars, context, taskVars>>

\* handleProcessingKeys (ui.go:302-309)
handleProcessingKeys ==
    /\ LoopIdle
    /\ uiState = "Processing"
    /\ \E key \in Keys :
         uiState' = IF key = "esc" THEN "Conversation" ELSE uiState
    /\ UNCHANGED <<textInput, uiError, lastResponse, recording, selectedMode, isSamplingVoice>>
    /\ UNCHANGED <<recVars, playVars, appVars, cfgVars, context, taskVars>>

\* ---- the commands, each run by a goroutine of the Bubbletea runtime ----

\* StartRecordingCmd (commands.go:39-46) with App.StartRecording
\* (app.go:175-186): a RecordingStartedMsg whatever the outcome
StartRecordingCmd(k) ==
    /\ cmd[k].kind = "startrec" /\ cmd[k].pc = "start"
    /\ IF IsRecording
       THEN UNCHANGED <<recVars, IsRecording>>
       ELSE \E err \in RecErrs :
              /\ StartRecordingBody(k, err)
              /\ UNCHANGED rlast
              /\ IsRecording' = (err = "nil")
    /\ cmd' = [cmd EXCEPT ![k].pc = "msg"]
    /\ UNCHANGED <<CurrentMode, IsPlaying, IsProcessing, LastMessage, LastResponse,
                   ConversationLog, MaxConversationHistory, context>>
    /\ UNCHANGED <<playVars, uiVars, bg, genCount>>

\* StopRecordingCmd (commands.go:49-57): App.StopRecording up to the end of
\* the first critical section of Recorder.StopRecording
StopRecordingCmd(k) ==
    /\ cmd[k].kind = "stoprec" /\ cmd[k].pc = "start"
    /\ IF ~IsRecording
       THEN /\ cmd' = [cmd EXCEPT ![k].pc = "msg", ![k].err = "NotRecording"]
            /\ UNCHANGED recVars
       ELSE \E err \in RecErrs :
              /\ StopRecordingBeginBody(k, err)
              /\ UNCHANGED rlast
              /\ cmd' = IF err # "pending"
                        THEN [cmd EXCEPT ![k].pc = "msg", ![k].err = err]
                        ELSE [cmd EXCEPT ![k].pc = "stop"]
    /\ UNCHANGED <<playVars, uiVars, appVars, cfgVars, context, bg, genCount>>

\* the rest of App.StopRecording (app.go:194-200) in a StopRecordingCmd
StopRecordingCmdStop(k) ==
    /\ cmd[k].kind = "stoprec" /\ cmd[k].pc = "stop"
    /\ \E err \in RecErrs :
         /\ StopRecordingRestBody(k, err)
         /\ UNCHANGED rlast
         /\ IF err # "pending"
            THEN /\ IsRecording' = IF err = "nil" THEN FALSE ELSE IsRecording
                 /\ cmd' = [cmd EXCEPT ![k].pc = "msg", ![k].err = err]
            ELSE UNCHANGED <<IsRecording, cmd>>
    /\ UNCHANGED <<CurrentMode, IsPlaying, IsProcessing, LastMessage, LastResponse,
                   ConversationLog, MaxConversationHistory, context>>
    /\ UNCHANGED <<playVars, uiVars, bg, genCount>>

\* ProcessTextCmd (commands.go:60-70): the health check, which passes or
\* fails, then ProcessTextInput up to the call of GenerateResponse
\* (app.go:97-107)
ProcessTextCmd(k) ==
    /\ cmd[k].kind = "text" /\ cmd[k].pc = "start"
    /\ \E healthy \in BOOLEAN :
         IF healthy
         THEN /\ IsProcessing' = TRUE
              /\ cmd' = [cmd EXCEPT ![k].pc = "gen"]
         ELSE /\ cmd' = [cmd EXCEPT ![k].pc = "msg", ![k].err = "HealthCheck"]
              /\ UNCHANGED IsProcessing
    /\ UNCHANGED <<CurrentMode, IsRecording, IsPlaying, LastMessage, LastResponse,
                   ConversationLog, MaxConversationHistory, context>>
    /\ UNCHANGED <<recVars, playVars, uiVars, bg, genCount>>

\* ProcessVoiceCmd (commands.go:86-90) with ProcessVoiceInput up to the call
\* of SpeechToText (app.go:137-148)
ProcessVoiceCmd(k) ==
    /\ cmd[k].kind = "voice" /\ cmd[k].pc = "start"
    /\ \E saved \in BOOLEAN :
         IF saved
         THEN /\ IsProcessing' = TRUE
              /\ cmd' = [cmd EXCEPT ![k].pc = "stt"]
         ELSE /\ IsProcessing' = FALSE
              /\ cmd' = [cmd EXCEPT ![k].pc = "respond", ![k].err = "SaveFailed"]
    /\ UNCHANGED <<CurrentMode, IsRecording, IsPlaying, LastMessage, LastResponse,
                   ConversationLog, MaxConversationHistory, context>>
    /\ UNCHANGED <<recVars, playVars, uiVars, bg, genCount>>

\* SpeechToText returns (app.go:148-154); on success ProcessTextInput starts
\* with the transcription (app.go:155, 97-107)
SpeechToTextReturns(k) ==
    /\ cmd[k].kind = "voice" /\ cmd[k].pc = "stt"
    /\ \E ok \in BOOLEAN :
         IF ok
         THEN /\ IsProcessing' = TRUE
              /\ cmd' = [cmd EXCEPT ![k].pc = "gen", ![k].input = Transcription]
         ELSE /\ IsProcessing' = FALSE
              /\ cmd' = [cmd EXCEPT ![k].pc = "respond", ![k].err = "SttFailed"]
    /\ UNCHANGED <<CurrentMode, IsRecording, IsPlaying, LastMessage, LastResponse,
                   ConversationLog, MaxConversationHistory, context>>
    /\ UNCHANGED <<recVars, playVars, uiVars, bg, genCount>>

\* GenerateResponse returning with a failure that records the input as the
\* last message
GenerateResponseReturns_RecordsInput(k) ==
    /\ cmd[k].kind \in {"text", "voice"} /\ cmd[k].pc = "gen"
    /\ \E ok \in BOOLEAN :
         IF ok
         THEN /\ genCount < MaxTurns
              /\ genCount' = genCount + 1
              /\ cmd' = [cmd EXCEPT ![k].pc = "write", ![k].resp = genCount + 1,
                                    ![k].local = ConversationLog]
              /\ UNCHANGED <<IsProcessing, LastMessage>>
         ELSE /\ IsProcessing' = FALSE
              /\ LastMessage' = cmd[k].input
              /\ cmd' = [cmd EXCEPT ![k].pc = "respond", ![k].err = "GenFailed"]
              /\ UNCHANGED genCount
    /\ UNCHANGED <<CurrentMode, IsRecording, IsPlaying, LastResponse,
                   ConversationLog, MaxConversationHistory, context>>
    /\ UNCHANGED <<recVars, playVars, uiVars, bg>>

\* GenerateResponse returns inside ProcessTextInput (app.go:101-110).  A
\* failure ends ProcessTextInput (the deferred IsProcessing = false runs); on
\* success the goroutine reads a.state.ConversationLog for the append
GenerateResponseReturns(k) ==
    /\ cmd[k].kind \in {"text", "voice"} /\ cmd[k].pc = "gen"
    /\ \E ok \in BOOLEAN :
         IF ok
         THEN /\ genCount < MaxTurns
              /\ genCount' = genCount + 1
              /\ cmd' = [cmd EXCEPT ![k].pc = "write", ![k].resp = genCount + 1,
                                    ![k].local = ConversationLog]
              /\ UNCHANGED IsProcessing
         ELSE /\ IsProcessing' = FALSE
              /\ cmd' = [cmd EXCEPT ![k].pc = "respond", ![k].err = "GenFailed"]
              /\ UNCHANGED genCount
    /\ UNCHANGED <<CurrentMode, IsRecording, IsPlaying, LastMessage, LastResponse,
                   ConversationLog, MaxConversationHistory, context>>
    /\ UNCHANGED <<recVars, playVars, uiVars, bg>>

\* the entry of a turn (app.go:113-121): its input and its response; the
\* timestamp, the mode and the level it also records are read by no code
Entry(k) == [UserInput |-> cmd[k].input, AIResponse |-> cmd[k].resp]

\* the rest of ProcessTextInput (app.go:113-133): the log is written from
\* the slice read before, truncated; LastMessage and LastResponse are set;
\* the deferred IsProcessing = false runs
ProcessTextInputLogs(k) ==
    /\ cmd[k].kind \in {"text", "voice"} /\ cmd[k].pc = "write"
    /\ ConversationLog' = Truncate(AppendEntry(cmd[k].local, Entry(k)))
    /\ LastMessage' = cmd[k].input
    /\ LastResponse' = cmd[k].resp
    /\ IsProcessing' = FALSE
    /\ cmd' = [cmd EXCEPT ![k].pc = "respond", ![k].local = <<>>,
                          ![k].appends = @ + 1]
    /\ UNCHANGED <<CurrentMode, IsRecording, IsPlaying, MaxConversationHistory, context>>
    /\ UNCHANGED <<recVars, playVars, uiVars, bg, genCount>>

\* err == nil (commands.go:72, 94): the turn has its response
NoError_Ignored(k) == TRUE
NoError(k) == cmd[k].err = "nil"

\* after ProcessTextInput or ProcessVoiceInput has returned (commands.go:
\* 71-81, 93-107): GenerateVoiceResponse is called when there is no error and
\* the mode asks for voice (app.go:159-161), else the message is returned
ProcessingResponds(k) ==
    /\ cmd[k].kind \in {"text", "voice"} /\ cmd[k].pc = "respond"
    /\ IF NoError(k) /\ WantsVoice(cmd[k].kind)
       THEN /\ IsProcessing' = TRUE
            /\ cmd' = [cmd EXCEPT ![k].pc = "tts"]
       ELSE /\ cmd' = [cmd EXCEPT ![k].pc = "msg",
                          ![k].out = MsgResponse(cmd[k].kind, cmd[k].resp)]
            /\ UNCHANGED IsProcessing
    /\ UNCHANGED <<CurrentMode, IsRecording, IsPlaying, LastMessage, LastResponse,
                   ConversationLog, MaxConversationHistory, context>>
    /\ UNCHANGED <<recVars, playVars, uiVars, bg, genCount>>

\* GenerateVoiceResponse with a failed synthesis taking the last entry back
GenerateVoiceResponseReturns_RollsBack(k) ==
    /\ cmd[k].kind \in {"text", "voice"} /\ cmd[k].pc = "tts"
    /\ \E audioErr \in {"nil", "TtsFailed"} :
         /\ bg' = IF audioErr = "nil"
                  THEN [bg EXCEPT ![cmd[k].resp] = "play"] ELSE bg
         /\ cmd' = [cmd EXCEPT ![k].pc = "msg", ![k].audioErr = audioErr,
                               ![k].out = MsgResponse(cmd[k].kind, cmd[k].resp)]
         /\ ConversationLog' =
                IF audioErr # "nil" /\ ConversationLog # <<>>
                THEN SubSeq(ConversationLog, 1, Len(ConversationLog) - 1)
                ELSE ConversationLog
    /\ IsProcessing' = FALSE
    /\ UNCHANGED <<CurrentMode, IsRecording, IsPlaying, LastMessage, LastResponse,
                   MaxConversationHistory, context>>
    /\ UNCHANGED <<recVars, playVars, uiVars, genCount>>

\* TextToSpeech returns inside GenerateVoiceResponse (app.go:166-171); on
\* success the command starts the PlayAudio goroutine of its response
\* (commands.go:73-75, 95-97); the error of a failed synthesis is dropped
GenerateVoiceResponseReturns(k) ==
    /\ cmd[k].kind \in {"text", "voice"} /\ cmd[k].pc = "tts"
    /\ \E audioErr \in {"nil", "TtsFailed"} :
         /\ bg' = IF audioErr = "nil"
                  THEN [bg EXCEPT ![cmd[k].resp] = "play"] ELSE bg
         /\ cmd' = [cmd EXCEPT ![k].pc = "msg", ![k].audioErr = audioErr,
                               ![k].out = MsgResponse(cmd[k].kind, cmd[k].resp)]
    /\ IsProcessing' = FALSE
    /\ UNCHANGED <<CurrentMode, IsRecording, IsPlaying, LastMessage, LastResponse,
                   ConversationLog, MaxConversationHistory, context>>
    /\ UNCHANGED <<recVars, playVars, uiVars, genCount>>

\* ---- Model.Update: the message of a command is delivered ----

\* case RecordingStartedMsg (ui.go:96-100)
UpdateRecordingStarted(k) ==
    /\ LoopIdle
    /\ cmd[k].kind = "startrec" /\ cmd[k].pc = "msg"
    /\ recording' = TRUE
    /\ uiState' = "Recording"
    /\ cmd' = [cmd EXCEPT ![k] = NoTask]
    /\ UNCHANGED <<textInput, uiError, lastResponse, selectedMode, isSamplingVoice, bg, genCount>>
    /\ UNCHANGED <<recVars, playVars, appVars, cfgVars, context>>

\* case RecordingStoppedMsg (ui.go:102-111): an error is shown, else the
\* recording goes to a ProcessVoiceCmd
UpdateRecordingStopped(k) ==
    /\ LoopIdle
    /\ cmd[k].kind = "stoprec" /\ cmd[k].pc = "msg"
    /\ recording' = FALSE
    /\ IF cmd[k].err # "nil"
       THEN /\ uiError' = cmd[k].err
            /\ uiState' = "Conversation"
            /\ cmd' = [cmd EXCEPT ![k] = NoTask]
       ELSE /\ uiState' = "Processing"
            /\ cmd' = [cmd EXCEPT ![k] = NewTask("voice", <<>>)]
            /\ UNCHANGED uiError
    /\ UNCHANGED <<textInput, lastResponse, selectedMode, isSamplingVoice, bg, genCount>>
    /\ UNCHANGED <<recVars, playVars, appVars, cfgVars, context>>

\* case ProcessingCompletedMsg (ui.go:113-121)
UpdateProcessingCompleted(k) ==
    /\ LoopIdle
    /\ cmd[k].kind \in {"text", "voice"} /\ cmd[k].pc = "msg"
    /\ uiState' = "Conversation"
    /\ lastResponse' = cmd[k].out
    /\ uiError' = IF cmd[k].err # "nil" THEN cmd[k].err ELSE ""
    /\ cmd' = [cmd EXCEPT ![k] = NoTask]
    /\ UNCHANGED <<textInput, recording, selectedMode, isSamplingVoice, bg, genCount>>
    /\ UNCHANGED <<recVars, playVars, appVars, cfgVars, context>>

\* ---- the PlayAudio goroutine of a command (app.go:204-233) ----

\* the check of a.state.IsPlaying and the call of PlayMP3File
\* (app.go:205-214); the file of a synthesis is an .mp3
PlayAudio(g) ==
    /\ bg[g] = "play"
    /\ IF IsPlaying
       THEN /\ bg' = [bg EXCEPT ![g] = "none"]
            /\ UNCHANGED playVars
       ELSE \E exists \in BOOLEAN : \E err \in PlayErrs :
              /\ PlayMP3FileBody(g, exists, err)
              /\ UNCHANGED plast
              /\ bg' = [bg EXCEPT ![g] = CASE err = "pending" -> "converting"
                                           [] err = "nil" -> "started"
                                           [] OTHER -> "none"]
    /\ UNCHANGED <<recVars, uiVars, appVars, cfgVars, context, cmd, genCount>>

\* a.state.IsPlaying = true and the start of the monitor goroutine
\* (app.go:224-230)
PlayAudioStarted(g) ==
    /\ bg[g] = "started"
    /\ IsPlaying' = TRUE
    /\ bg' = [bg EXCEPT ![g] = "monitor"]
    /\ UNCHANGED <<CurrentMode, IsRecording, IsProcessing, LastMessage,
                   LastResponse, ConversationLog, MaxConversationHistory, context>>
    /\ UNCHANGED <<recVars, playVars, uiVars, cmd, genCount>>

\* the monitor goroutine in a.player.WaitForPlayback() (app.go:228)
PlayAudioWaits(g) ==
    /\ bg[g] = "monitor"
    /\ \E err \in PlayErrs :
         /\ WaitForPlaybackBody(g, err)
         /\ UNCHANGED plast
         /\ bg' = [bg EXCEPT ![g] = IF err = "nil" THEN "over" ELSE @]
    /\ UNCHANGED <<recVars, uiVars, appVars, cfgVars, context, cmd, genCount>>

\* a.state.IsPlaying = false of the monitor goroutine (app.go:229)
PlayAudioOver(g) ==
    /\ bg[g] = "over"
    /\ IsPlaying' = FALSE
    /\ bg' = [bg EXCEPT ![g] = "none"]
    /\ UNCHANGED <<CurrentMode, IsRecording, IsProcessing, LastMessage,
                   LastResponse, ConversationLog, MaxConversationHistory, context>>
    /\ UNCHANGED <<recVars, playVars, uiVars, cmd, genCount>>

\* ---- the settings screen: the voice sample ----

\* the keys a user presses in the settings screen
SettingsKeys == {"esc", "v", "x"}

\* the sample goroutines not alive
FreeSamples == {g \in SampleIds : bg[g] = "none"}
FreeSample == CHOOSE g \in FreeSamples : \A o \in FreeSamples : g <= o

\* App.StopAudio (app.go:236-247), called inside Update
StopAudio ==
    IF ~IsPlaying
    THEN UNCHANGED <<playVars, IsPlaying>>
    ELSE \E err \in PlayErrs :
           /\ StopPlaybackBody(0, err)
           /\ UNCHANGED plast
           /\ IsPlaying' = IF err = "nil" THEN FALSE ELSE IsPlaying

\* handleSettingsKeys (ui.go:620-645): "v" starts a goroutine that calls
\* app.PlayAudioSample when no sample is marked as playing, and calls
\* app.StopAudio otherwise
handleSettingsKeys ==
    /\ LoopIdle
    /\ uiState = "Settings"
    /\ \E key \in SettingsKeys :
         CASE key = "esc" ->
                /\ uiState' = "MainMenu"
                /\ UNCHANGED <<isSamplingVoice, bg, playVars, IsPlaying>>
           [] key = "v" ->
                /\ IF ~isSamplingVoice
                   THEN /\ FreeSamples # {}
                        /\ isSamplingVoice' = TRUE
                        /\ bg' = [bg EXCEPT ![FreeSample] = "sample"]
                        /\ UNCHANGED <<playVars, IsPlaying>>
                   ELSE /\ StopAudio
                        /\ isSamplingVoice' = FALSE
                        /\ UNCHANGED bg
                /\ UNCHANGED uiState
           [] OTHER -> UNCHANGED <<uiState, isSamplingVoice, bg, playVars, IsPlaying>>
    /\ UNCHANGED <<textInput, uiError, lastResponse, recording, selectedMode>>
    /\ UNCHANGED <<CurrentMode, IsRecording, IsProcessing, LastMessage,
                   LastResponse, ConversationLog, MaxConversationHistory, context>>
    /\ UNCHANGED <<recVars, cmd, genCount>>

\* App.PlayAudioSample (app.go:250-257) in its goroutine: TextToSpeech writes
\* the sample file or fails, then the call of PlayMP3File, whose result the
\* goroutine drops
PlayAudioSample(g) ==
    /\ bg[g] = "sample"
    /\ \E synthesized \in BOOLEAN :
         IF ~synthesized
         THEN /\ bg' = [bg EXCEPT ![g] = "none"]
              /\ UNCHANGED playVars
         ELSE \E err \in PlayErrs :
                /\ PlayMP3FileBody(g, TRUE, err)
                /\ UNCHANGED plast
                /\ bg' = [bg EXCEPT ![g] = IF err = "pending" THEN "converting"
                                           ELSE "none"]
    /\ UNCHANGED <<recVars, uiVars, appVars, cfgVars, context, cmd, genCount>>

\* ---- the context of a request (tts.go:213-241) ----

\* the entries a log can hold and the logs GetConversationContext is given
ContextEntries == [UserInput : {"u1", "u2"}, AIResponse : {"a1", "a2"}]
ContextLogs == UNION {[1..n -> ContextEntries] : n \in 0..MaxContextLog}

\* the loop over entries[start:] (tts.go:226-238): the user message of an
\* entry, then its assistant message
RECURSIVE AppendMessages(_, _)
AppendMessages(messages, rest) ==
    IF rest = <<>>
    THEN messages
    ELSE AppendMessages(
           messages \o <<[Role |-> "user", Content |-> Head(rest).UserInput],
                         [Role |-> "assistant", Content |-> Head(rest).AIResponse]>>,
           Tail(rest))

\* GetConversationContext that takes the oldest entries
GetConversationContext_FromStart(entries, maxEntries) ==
    IF Len(entries) = 0
    THEN <<>>
    ELSE LET n == IF Len(entries) > maxEntries THEN maxEntries ELSE Len(entries)
         IN  AppendMessages(<<>>, SubSeq(entries, 1, n))

\* GetConversationContext (tts.go:213-241); nil is the empty sequence, and
\* entries[start:] is entries[start+1 .. len] counted from 1
GetConversationContext(entries, maxEntries) ==
    IF Len(entries) = 0
    THEN <<>>
    ELSE LET start == IF Len(entries) > maxEntries
                      THEN Len(entries) - maxEntries
                      ELSE 0
         IN  AppendMessages(<<>>, SubSeq(entries, start + 1, Len(entries)))

\* a call of GetConversationContext on a log and a maxEntries
CallGetConversationContext ==
    \E entries \in ContextLogs : \E maxEntries \in 0..MaxContext :
        context' = [entries |-> entries, maxEntries |-> maxEntries,
                    messages |-> GetConversationContext(entries, maxEntries)]

(***************************************************************************)
(* Specifications                                                          *)
(***************************************************************************)
\* the Recorder alone: the Player and the application are idle
InitRecSpec ==
    /\ InitRec /\ InitPlay /\ tools = {}
    /\ InitApp /\ CurrentMode = TextToText /\ MaxConversationHistory = 1

NextRec ==
    \/ \E t \in RThreads : StartRecording(t) /\ UNCHANGED <<playVars, orchVars>>
    \/ \E t \in RThreads : StopRecordingBegin(t) /\ UNCHANGED <<playVars, orchVars>>
    \/ \E t \in RThreads : StopRecordingStopStream(t) /\ UNCHANGED <<playVars, orchVars>>
    \/ \E t \in RThreads : StopRecordingCloseStream(t) /\ UNCHANGED <<playVars, orchVars>>
    \/ \E t \in RThreads : StopRecordingCopy(t) /\ UNCHANGED <<playVars, orchVars>>
    \/ \E s \in StreamIds : recordCallback(s) /\ UNCHANGED <<playVars, orchVars>>

\* one caller thread and the callback: the calls of the Recorder API form a
\* sequence
NextRecSeq ==
    \/ StartRecording(1) /\ UNCHANGED <<playVars, orchVars>>
    \/ StopRecordingBegin(1) /\ UNCHANGED <<playVars, orchVars>>
    \/ StopRecordingStopStream(1) /\ UNCHANGED <<playVars, orchVars>>
    \/ StopRecordingCloseStream(1) /\ UNCHANGED <<playVars, orchVars>>
    \/ StopRecordingCopy(1) /\ UNCHANGED <<playVars, orchVars>>
    \/ \E s \in StreamIds : recordCallback(s) /\ UNCHANGED <<playVars, orchVars>>

SpecRec == InitRecSpec /\ [][NextRec]_vars
SpecRecSeq == InitRecSpec /\ [][NextRecSeq]_vars

\* the Recorder with Close: the callers start, stop and close it
NextClose ==
    \/ \E t \in RThreads : StartRecording(t) /\ UNCHANGED <<playVars, orchVars>>
    \/ \E t \in RThreads : StopRecordingBegin(t) /\ UNCHANGED <<playVars, orchVars>>
    \/ \E t \in RThreads : StopRecordingStopStream(t) /\ UNCHANGED <<playVars, orchVars>>
    \/ \E t \in RThreads : StopRecordingCloseStream(t) /\ UNCHANGED <<playVars, orchVars>>
    \/ \E t \in RThreads : StopRecordingCopy(t) /\ UNCHANGED <<playVars, orchVars>>
    \/ \E s \in StreamIds : recordCallback(s) /\ UNCHANGED <<playVars, orchVars>>
    \/ \E t \in RThreads : Close(t) /\ UNCHANGED <<playVars, orchVars>>

SpecClose == InitRecSpec /\ [][NextClose]_vars

\* the Player alone: the Recorder is idle
InitPlaySpec ==
    /\ InitPlay
    /\ InitRec /\ sampleRate = 16000 /\ channels = 1
    /\ InitApp /\ CurrentMode = TextToText /\ MaxConversationHistory = 1

NextPlay ==
    \/ \E t \in PThreads : PlayFile(t) /\ UNCHANGED <<recVars, orchVars>>
    \/ \E t \in PThreads : PlayMP3File(t) /\ UNCHANGED <<recVars, orchVars>>
    \/ \E t \in PThreads : PlayMP3Convert(t) /\ UNCHANGED <<recVars, orchVars>>
    \/ \E t \in PThreads : StopPlayback(t) /\ UNCHANGED <<recVars, orchVars>>
    \/ \E t \in PThreads : WaitForPlayback(t) /\ UNCHANGED <<recVars, orchVars>>
    \/ \E c \in CmdIds : MonitorStart(c) /\ UNCHANGED <<recVars, orchVars>>
    \/ \E c \in CmdIds : ProcessExit(c) /\ UNCHANGED <<recVars, orchVars>>
    \/ \E c \in CmdIds : MonitorCleanup(c) /\ UNCHANGED <<recVars, orchVars>>

SpecPlay == InitPlaySpec /\ [][NextPlay]_vars

\* the Player when no caller uses StopPlayback, with the scheduling the
\* runtime provides: a spawned goroutine runs, the player process of a
\* finite file exits, ffmpeg returns, and a goroutine that keeps asking for
\* the mutex gets it whenever it is released again and again (sync.Mutex is
\* starvation-free)
NextPlayNoStop ==
    \/ \E t \in PThreads : PlayFile(t) /\ UNCHANGED <<recVars, orchVars>>
    \/ \E t \in PThreads : PlayMP3File(t) /\ UNCHANGED <<recVars, orchVars>>
    \/ \E t \in PThreads : PlayMP3Convert(t) /\ UNCHANGED <<recVars, orchVars>>
    \/ \E t \in PThreads : WaitForPlayback(t) /\ UNCHANGED <<recVars, orchVars>>
    \/ \E c \in CmdIds : MonitorStart(c) /\ UNCHANGED <<recVars, orchVars>>
    \/ \E c \in CmdIds : ProcessExit(c) /\ UNCHANGED <<recVars, orchVars>>
    \/ \E c \in CmdIds : MonitorCleanup(c) /\ UNCHANGED <<recVars, orchVars>>

\* a waiting thread's pass through the loop of WaitForPlayback
WaitPoll(t) == ppc[t] = "waiting" /\ WaitForPlayback(t)

\* a thread inside PlayMP3File, StreamAudioFromReader or PlayAudioData that
\* has called the file-based operation
InNestedCall(t) == ppc[t] \in {"nested_playfile", "nested_playmp3"}

\* the Lock of the file-based operation called by such a thread returns
NestedCall(t) == InNestedCall(t) /\ (PlayFile(t) \/ PlayMP3File(t))

FairPlay ==
    /\ \A c \in CmdIds : WF_vars(MonitorStart(c) /\ UNCHANGED <<recVars, orchVars>>)
    /\ \A c \in CmdIds : WF_vars(ProcessExit(c) /\ UNCHANGED <<recVars, orchVars>>)
    /\ \A c \in CmdIds : SF_vars(MonitorCleanup(c) /\ UNCHANGED <<recVars, orchVars>>)
    /\ \A t \in PThreads : WF_vars(PlayMP3Convert(t) /\ UNCHANGED <<recVars, orchVars>>)
    /\ \A t \in PThreads : SF_vars(WaitPoll(t) /\ UNCHANGED <<recVars, orchVars>>)
    /\ \A t \in PThreads : SF_vars(NestedCall(t) /\ UNCHANGED <<recVars, orchVars>>)

SpecPlayLive == InitPlaySpec /\ [][NextPlayNoStop]_vars /\ FairPlay

\* the turns of the application: the event loop of the Model, the goroutines
\* of its commands and the Recorder behind App.  A PlayAudio goroutine is
\* started and left alone: it reads and writes a.state.IsPlaying and the
\* Player only, which no step of a turn reads (SpecAudio runs them).  The mode
\* is the configured one throughout: the user does not open the mode
\* selection (SpecMode does)
InitUI ==
    /\ InitApp /\ MaxConversationHistory = 1
    /\ InitRec /\ sampleRate = 16000 /\ channels = 1
    /\ InitPlay /\ tools = {"mpg123"}

NextUI ==
    \/ handleMainMenuKeys /\ uiState' \notin {"ModeSelection", "Settings"}
    \/ handleConversationKeys
    \/ handleRecordingKeys
    \/ handleRecordingKeysStop
    \/ handleProcessingKeys
    \/ \E k \in TaskIds : StartRecordingCmd(k)
    \/ \E k \in TaskIds : StopRecordingCmd(k)
    \/ \E k \in TaskIds : StopRecordingCmdStop(k)
    \/ \E k \in TaskIds : ProcessTextCmd(k)
    \/ \E k \in TaskIds : ProcessVoiceCmd(k)
    \/ \E k \in TaskIds : SpeechToTextReturns(k)
    \/ \E k \in TaskIds : GenerateResponseReturns(k)
    \/ \E k \in TaskIds : ProcessTextInputLogs(k)
    \/ \E k \in TaskIds : ProcessingResponds(k)
    \/ \E k \in TaskIds : GenerateVoiceResponseReturns(k)
    \/ \E k \in TaskIds : UpdateRecordingStarted(k)
    \/ \E k \in TaskIds : UpdateRecordingStopped(k)
    \/ \E k \in TaskIds : UpdateProcessingCompleted(k)

SpecUI == InitUI /\ [][NextUI]_vars


(***************************************************************************)
(* Recorder: properties                                                    *)
(***************************************************************************)
\* a Recorder call returned in this step
RecReturned == rlast' # rlast

\* d = floor(n * Second / rate), stated through the remainder:
\* 0 <= n * Second - d * rate < rate, with Second = q * rate + m
IsQuotient(d, n, rate) ==
    LET q == Second \div rate
        m == Second % rate
        e == n * q - d
    IN  /\ e \in (0 - n)..0
        /\ 0 <= rate * e + n * m
        /\ rate * e + n * m < rate

\* C4: in a sequence of StartRecording, callback appends and StopRecording,
\* a StopRecording that returns AudioData returns exactly the samples the
\* callback appended since the last successful StartRecording, in arrival
\* order, and Duration is (samples / channels) seconds divided by sampleRate
C4_StopReturnsSessionSamples ==
    [][(RecReturned /\ rlast'.op = "stop" /\ rlast'.err = "nil") =>
          /\ rlast'.hasData
          /\ rlast'.audio.Data = appended
          /\ rlast'.audio.SampleRate = sampleRate
          /\ IsQuotient(rlast'.audio.Duration,
                        Len(appended) \div channels, sampleRate)]_vars

\* C4 witness: the second session of a Recorder has been stopped and
\* returned two or more samples, on a two-channel Recorder
C4_Witness ==
    /\ rlast.op = "stop" /\ rlast.err = "nil" /\ rlast.hasData
    /\ Len(rlast.audio.Data) >= 2
    /\ channels = 2
    /\ stream = 2 /\ streams[1] = "closed" /\ streams[2] = "closed"

\* C5 as stated: with no StopRecording in between, at most one StartRecording
\* succeeds and every other one fails with the already-active error without
\* opening a stream
C5_Original ==
    [][/\ startedSince' <= 1
       /\ (RecReturned /\ rlast'.op = "start" /\ rlast'.err # "nil") =>
             /\ rlast'.err = "AlreadyActive"
             /\ rlast'.opened = 0
             /\ streams' = streams]_vars

\* C5 amended: with no StopRecording in between, at most one StartRecording
\* succeeds; every StartRecording that runs after the successful one fails
\* with the already-active error without opening a stream; one that runs
\* while no session is active can fail only on the audio subsystem (device,
\* open or start error)
C5_OneSessionPerRecorder ==
    [][/\ startedSince' <= 1
       /\ (RecReturned /\ rlast'.op = "start" /\ startedSince >= 1) =>
             /\ rlast'.err = "AlreadyActive"
             /\ rlast'.opened = 0
             /\ streams' = streams
       /\ (RecReturned /\ rlast'.op = "start" /\ startedSince = 0
             /\ rlast'.err # "nil") =>
             rlast'.err \in {"DeviceFailed", "OpenFailed", "StartFailed"}]_vars

\* C5 witness: a session is active and another thread's StartRecording has
\* just failed with the already-active error
C5_Witness ==
    /\ startedSince = 1 /\ isRecording
    /\ rlast.op = "start" /\ rlast.err = "AlreadyActive"
    /\ rlast.thread = 2

\* C8: StartRecording on a Recorder whose session is active fails with the
\* already-active error and leaves buffer, stream and isRecording unchanged
C8_StartOnActiveLeavesSession ==
    [][(RecReturned /\ rlast'.op = "start" /\ isRecording) =>
          /\ rlast'.err = "AlreadyActive"
          /\ UNCHANGED <<buffer, stream, streams, isRecording>>]_vars

\* C8 witness: StartRecording failed with the already-active error while the
\* session's buffer holds samples
C8_Witness ==
    /\ rlast.op = "start" /\ rlast.err = "AlreadyActive"
    /\ isRecording /\ buffer # <<>>
    /\ stream # 0 /\ streams[stream] = "started"

\* C9: StopRecording on a Recorder with no active session returns at once
\* with the not-active error and no AudioData, and changes nothing
C9_StopOnInactive ==
    [][\A t \in RThreads :
         (~isRecording /\ rpc[t] = "idle") =>
            /\ rpc'[t] = "idle"
            /\ (RecReturned /\ rlast'.thread = t /\ rlast'.op = "stop") =>
                  /\ rlast'.err = "NotActive"
                  /\ ~rlast'.hasData
                  /\ UNCHANGED <<buffer, stream, streams, isRecording, rpc>>]_vars

\* C9 witness: StopRecording failed with the not-active error on a Recorder
\* that recorded before and still holds the samples
C9_Witness ==
    /\ rlast.op = "stop" /\ rlast.err = "NotActive" /\ ~rlast.hasData
    /\ ~isRecording /\ buffer # <<>>

(***************************************************************************)
(* Player: properties                                                      *)
(***************************************************************************)
\* a Player call returned in this step
PlayReturned == plast' # plast

\* the commands whose process is running
Running == {c \in CmdIds : proc[c] = "running"}

\* C3: at most one player process started by the Player is running at any
\* moment
C3_AtMostOneProcess == Cardinality(Running) <= 1

\* C6: PlayFile and PlayMP3File fail with the already-playing error when a
\* playback is active, and with the file-not-found error when it is not and
\* the path does not exist; in both cases no process is spawned and
\* isPlaying and currentCmd are unchanged
C6_PlayFailsWithoutEffect ==
    [][(PlayReturned /\ plast'.op \in {"PlayFile", "PlayMP3File"}
          /\ (isPlaying \/ ~plast'.exists)) =>
          /\ plast'.err = IF isPlaying THEN "AlreadyPlaying" ELSE "FileNotFound"
          /\ plast'.cmd = 0
          /\ UNCHANGED <<isPlaying, currentCmd, proc, mon>>]_vars

\* C6 witness: PlayMP3File failed with the file-not-found error on an idle
\* Player that has played before
C6_Witness ==
    /\ plast.op = "PlayMP3File" /\ plast.err = "FileNotFound"
    /\ ~isPlaying /\ currentCmd = 0
    /\ proc[1] # "none"

\* the playback of command c is current and its process has exited on its own
ExitedPlayback(c) == currentCmd = c /\ isPlaying /\ proc[c] = "exited"

\* C7: after a successful PlayFile or PlayMP3File, once the player process
\* has exited on its own, isPlaying becomes false and the handle is cleared
\* without StopPlayback, and a caller blocked in WaitForPlayback returns
C7_PlaybackEnds ==
    /\ \A c \in CmdIds :
          ExitedPlayback(c) ~> (~isPlaying /\ currentCmd = 0)
    /\ \A c \in CmdIds : \A t \in PThreads :
          (ExitedPlayback(c) /\ ppc[t] = "waiting") ~> (ppc[t] = "idle")

\* the first half of C7 alone: the monitor goroutine clears the handle
C7_HandleCleared ==
    \A c \in CmdIds : ExitedPlayback(c) ~> (~isPlaying /\ currentCmd = 0)

\* C10: StopPlayback on an active playback kills the player process, returns
\* success and leaves IsPlaying() false; with no active playback it fails
\* with the not-playing error and changes nothing
C10_StopPlayback ==
    [][(PlayReturned /\ plast'.op = "StopPlayback") =>
          IF isPlaying
          THEN /\ plast'.err = "nil"
               /\ proc'[currentCmd] = "killed"
               /\ ~isPlaying'
          ELSE /\ plast'.err = "NotPlaying"
               /\ UNCHANGED <<isPlaying, currentCmd, proc, mon>>]_vars

\* the application in the text-to-voice mode with the Player: text turns, the
\* PlayAudio goroutines of their responses and the player processes.  The
\* user presses no ctrl+r, which this mode answers with an error only, and
\* does not open the mode selection
InitAudio ==
    /\ InitApp /\ CurrentMode = TextToVoice /\ MaxConversationHistory = 1
    /\ InitRec /\ sampleRate = 16000 /\ channels = 1
    /\ InitPlay /\ tools = {"mpg123"}

NextAudio ==
    \/ handleMainMenuKeys /\ uiState' \notin {"ModeSelection", "Settings"}
    \/ handleConversationKeys /\ uiError' # "VoiceUnsupported"
    \/ handleProcessingKeys
    \/ \E k \in TaskIds : ProcessTextCmd(k)
    \/ \E k \in TaskIds : GenerateResponseReturns(k)
    \/ \E k \in TaskIds : ProcessTextInputLogs(k)
    \/ \E k \in TaskIds : ProcessingResponds(k)
    \/ \E k \in TaskIds : GenerateVoiceResponseReturns(k)
    \/ \E k \in TaskIds : UpdateProcessingCompleted(k)
    \/ \E g \in GoIds : PlayAudio(g)
    \/ \E g \in GoIds : PlayAudioStarted(g)
    \/ \E g \in GoIds : PlayAudioWaits(g)
    \/ \E g \in GoIds : PlayAudioOver(g)
    \/ \E c \in CmdIds : MonitorStart(c) /\ UNCHANGED <<recVars, orchVars>>
    \/ \E c \in CmdIds : ProcessExit(c) /\ UNCHANGED <<recVars, orchVars>>
    \/ \E c \in CmdIds : MonitorCleanup(c) /\ UNCHANGED <<recVars, orchVars>>

SpecAudio == InitAudio /\ [][NextAudio]_vars

\* the application with the mode selection and voice turns; the user types
\* no text
InitMode ==
    /\ InitApp /\ MaxConversationHistory = 1
    /\ InitRec /\ sampleRate = 16000 /\ channels = 1
    /\ InitPlay /\ tools = {"mpg123"}

NextMode ==
    \/ handleMainMenuKeys /\ uiState' # "Settings"
    \/ handleModeSelectionKeys
    \/ handleConversationKeys /\ textInput' = textInput
    \/ handleRecordingKeys
    \/ handleRecordingKeysStop
    \/ handleProcessingKeys
    \/ \E k \in TaskIds : StartRecordingCmd(k)
    \/ \E k \in TaskIds : StopRecordingCmd(k)
    \/ \E k \in TaskIds : StopRecordingCmdStop(k)
    \/ \E k \in TaskIds : ProcessVoiceCmd(k)
    \/ \E k \in TaskIds : SpeechToTextReturns(k)
    \/ \E k \in TaskIds : GenerateResponseReturns(k)
    \/ \E k \in TaskIds : ProcessTextInputLogs(k)
    \/ \E k \in TaskIds : ProcessingResponds(k)
    \/ \E k \in TaskIds : GenerateVoiceResponseReturns(k)
    \/ \E k \in TaskIds : UpdateRecordingStarted(k)
    \/ \E k \in TaskIds : UpdateRecordingStopped(k)
    \/ \E k \in TaskIds : UpdateProcessingCompleted(k)

SpecMode == InitMode /\ [][NextMode]_vars

\* the application in the text-to-text mode under each history limit: text
\* turns only, no mode selection and no ctrl+r
InitLog ==
    /\ InitApp /\ CurrentMode = TextToText
    /\ InitRec /\ sampleRate = 16000 /\ channels = 1
    /\ InitPlay /\ tools = {"mpg123"}

NextLog ==
    \/ handleMainMenuKeys /\ uiState' \notin {"ModeSelection", "Settings"}
    \/ handleConversationKeys /\ uiError' # "VoiceUnsupported"
    \/ handleProcessingKeys
    \/ \E k \in TaskIds : ProcessTextCmd(k)
    \/ \E k \in TaskIds : GenerateResponseReturns(k)
    \/ \E k \in TaskIds : ProcessTextInputLogs(k)
    \/ \E k \in TaskIds : ProcessingResponds(k)
    \/ \E k \in TaskIds : UpdateProcessingCompleted(k)

SpecLog == InitLog /\ [][NextLog]_vars

\* SaveToWAV of each AudioData on a Recorder of each channel count
InitWav ==
    /\ \E ch \in WavChannelCounts : NewRecorder(16000, ch)
    /\ \E data \in WavData : \E silence \in WavSilence : \E rate \in WavRates :
         wav = [NoWav EXCEPT !.Data = data, !.silence = silence,
                             !.SampleRate = rate]
    /\ InitPlay /\ tools = {}
    /\ InitApp /\ CurrentMode = TextToText /\ MaxConversationHistory = 1

NextWav == SaveToWAV /\ UNCHANGED <<playVars, orchVars>>

SpecWav == InitWav /\ [][NextWav]_vars

(***************************************************************************)
(* Application: properties                                                 *)
(***************************************************************************)
\* the processing commands issued whose ProcessingCompletedMsg has not been
\* delivered
InFlight == {k \in TaskIds : cmd[k].kind \in {"text", "voice"}}

\* C1: after any sequence of key presses and message deliveries at most one
\* processing command (ProcessTextCmd or ProcessVoiceCmd) is in flight: none
\* is issued while an earlier one has not delivered its
\* ProcessingCompletedMsg
C1_SingleInFlightTurn == Cardinality(InFlight) <= 1

\* the step in which command k appends its entry to the log
Appends(k) == cmd'[k].appends = cmd[k].appends + 1
\* the step in which command k calls GenerateVoiceResponse
InvokesSpeech(k) == cmd[k].pc # "tts" /\ cmd'[k].pc = "tts"
\* the step in which command k returns its ProcessingCompletedMsg
Completes(k) ==
    cmd'[k].kind \in {"text", "voice"} /\ cmd[k].pc # "msg" /\ cmd'[k].pc = "msg"

\* C2: a command whose GenerateResponse call succeeded appends exactly one
\* entry to ConversationLog, the entry of that response, and has done so
\* when it calls GenerateVoiceResponse; a command whose GenerateResponse call
\* failed, or that made none, appends nothing; the log changes in no other
\* step
C2_AppendOnceBeforeSpeech ==
    [][ /\ \A k \in TaskIds :
             /\ Appends(k) =>
                   /\ cmd[k].appends = 0
                   /\ cmd[k].resp # 0
                   /\ ConversationLog' # <<>>
                   /\ ConversationLog'[Len(ConversationLog')].AIResponse = cmd[k].resp
                   /\ ConversationLog'[Len(ConversationLog')].UserInput = cmd[k].input
             /\ InvokesSpeech(k) => cmd[k].resp # 0 /\ cmd[k].appends = 1
             /\ Completes(k) =>
                   cmd'[k].appends = IF cmd'[k].resp # 0 THEN 1 ELSE 0
        /\ ConversationLog' # ConversationLog => \E j \in TaskIds : Appends(j)
      ]_vars

\* a command is inside GenerateVoiceResponse and the entry of its response is
\* the last of the log
C2_Witness ==
    \E k \in TaskIds :
        /\ cmd[k].pc = "tts"
        /\ cmd[k].appends = 1
        /\ ConversationLog # <<>>
        /\ ConversationLog[Len(ConversationLog)].AIResponse = cmd[k].resp

\* the step in which the ProcessingCompletedMsg of command k is handled by
\* Update
Delivers(k) ==
    cmd[k].kind \in {"text", "voice"} /\ cmd[k].pc = "msg" /\ cmd'[k].pc # "msg"

\* C11: when the user has left the Processing screen before a command
\* resolves, its result is discarded: the ProcessingCompletedMsg handled
\* outside Processing changes neither the screen, the displayed response nor
\* the error, and no command starts a playback outside Processing
C11_ResultDiscardedAfterLeave ==
    [][ /\ \A k \in TaskIds :
             Delivers(k) /\ uiState # "Processing" =>
                 /\ uiState' = uiState
                 /\ lastResponse' = lastResponse
                 /\ uiError' = uiError
        /\ uiState # "Processing" => bg' = bg
      ]_vars

\* a player process of an earlier response is running
Playing == \E c \in CmdIds : proc[c] = "running"

\* C12: while the audio of an earlier turn is playing no new turn starts: no
\* text command and no recording command is issued
C12_NoTurnWhilePlaying ==
    [][ \A k \in TaskIds :
            cmd[k].kind = "none" /\ cmd'[k].kind \in {"text", "startrec"}
                => ~Playing
      ]_vars

\* the step in which GenerateVoiceResponse returns an error to command k
SynthesisFails(k) ==
    cmd[k].pc = "tts" /\ cmd'[k].pc = "msg" /\ cmd'[k].audioErr # "nil"

\* C13: a failed synthesis leaves the conversation log as it is: the step in
\* which GenerateVoiceResponse fails changes no entry of the log, and the
\* turn keeps the one append it has made
C13_SynthesisFailureKeepsLog ==
    [][ \A k \in TaskIds :
            SynthesisFails(k) =>
                /\ ConversationLog' = ConversationLog
                /\ cmd'[k].appends = 1
                /\ cmd'[k].resp = cmd[k].resp
      ]_vars

\* a command whose synthesis has failed, its entry being the last of the log
C13_Witness ==
    \E k \in TaskIds :
        /\ cmd[k].pc = "msg"
        /\ cmd[k].audioErr = "TtsFailed"
        /\ ConversationLog # <<>>
        /\ ConversationLog[Len(ConversationLog)].AIResponse = cmd[k].resp

\* C14: when the synthesis of a turn has failed, the ProcessingCompletedMsg
\* the command returns carries an error
C14_SynthesisErrorSurfaced ==
    \A k \in TaskIds :
        cmd[k].pc = "msg" /\ cmd[k].audioErr = "TtsFailed" => cmd[k].err # "nil"

\* the transcription of voice command k has failed
TranscriptionFailed(k) == cmd[k].kind = "voice" /\ cmd[k].err = "SttFailed"

\* C15: a voice command whose transcription has failed calls neither
\* GenerateResponse nor GenerateVoiceResponse, appends no entry and starts no
\* playback; it returns its message, and Update shows the Conversation
\* screen with the error
C15_TranscriptionFailureAborts ==
    [][ \A k \in TaskIds :
            /\ cmd'[k].kind = "voice" /\ cmd'[k].err = "SttFailed" =>
                  /\ cmd'[k].pc \in {"respond", "msg"}
                  /\ cmd'[k].resp = 0
                  /\ cmd'[k].appends = 0
                  /\ cmd'[k].audioErr = "none"
            /\ (TranscriptionFailed(k) \/ cmd'[k].err = "SttFailed")
                 /\ cmd'[k] # cmd[k] =>
                  /\ genCount' = genCount
                  /\ ConversationLog' = ConversationLog
                  /\ bg' = bg
            /\ TranscriptionFailed(k) /\ Delivers(k) =>
                  /\ uiState' = "Conversation"
                  /\ uiError' = "SttFailed"
      ]_vars

\* the error of a failed transcription is shown in the conversation, the
\* log is empty and no response was generated
C15_Witness ==
    /\ uiState = "Conversation"
    /\ uiError = "SttFailed"
    /\ CurrentMode = VoiceToVoice
    /\ ConversationLog = <<>>
    /\ genCount = 0
    /\ \A k \in TaskIds : cmd[k].kind = "none"

\* the step in which the event loop issues StartRecordingCmd in slot k
IssuesRecording(k) == cmd[k].kind = "none" /\ cmd'[k].kind = "startrec"

\* C16: a StartRecordingCmd is issued in the modes VoiceToText and
\* VoiceToVoice only; the key press that brings up the error of
\* handleVoiceInput is made in TextToText or TextToVoice and changes neither
\* the screen, the commands nor the recording state of App and Recorder
C16_VoiceInputGuardedByMode ==
    [][ /\ \A k \in TaskIds :
             IssuesRecording(k) => CurrentMode \in {VoiceToText, VoiceToVoice}
        /\ uiError' = "VoiceUnsupported" /\ uiError # "VoiceUnsupported" =>
             /\ CurrentMode \in {TextToText, TextToVoice}
             /\ uiState' = uiState
             /\ cmd' = cmd
             /\ IsRecording' = IsRecording
             /\ UNCHANGED recVars
      ]_vars

\* ctrl+r was pressed in the text-to-voice mode: the error is shown in the
\* conversation, no command is in flight and nothing records
C16_Witness ==
    /\ CurrentMode = TextToVoice
    /\ uiState = "Conversation"
    /\ uiError = "VoiceUnsupported"
    /\ \A k \in TaskIds : cmd[k].kind = "none"
    /\ ~IsRecording /\ ~isRecording /\ stream = 0

\* the step in which the event loop issues ProcessTextCmd in slot k
IssuesText(k) == cmd[k].kind = "none" /\ cmd'[k].kind = "text"

\* C17: text submitted while the application is recording is rejected: no
\* ProcessTextCmd is issued while a.state.IsRecording is set
C17_NoTextWhileRecording ==
    [][ \A k \in TaskIds : IssuesText(k) => ~IsRecording ]_vars

\* C18: a command whose GenerateResponse call succeeded calls
\* GenerateVoiceResponse exactly when the mode at that moment is TextToVoice
\* or VoiceToVoice; in the other modes it returns its message at once
C18_SynthesisIffVoiceOutputMode ==
    [][ \A k \in TaskIds :
            cmd[k].pc = "respond" /\ cmd[k].resp # 0 /\ cmd'[k].pc # "respond" =>
                (cmd'[k].pc = "tts" <=> CurrentMode \in {TextToVoice, VoiceToVoice})
      ]_vars

\* C19: when every turn has completed, ConversationLog holds the last
\* min(count, M) of the entries appended so far, count being the responses
\* generated (each is appended once) and M the configured limit
C19_LogKeepsLastEntries ==
    InFlight = {} =>
        /\ Len(ConversationLog) <= MaxConversationHistory
        /\ Len(ConversationLog) = IF genCount < MaxConversationHistory
                                  THEN genCount ELSE MaxConversationHistory

C21_ReturnedDataIsCopy ==
    [][ held'.Data # held.Data =>
            /\ RecReturned
            /\ rlast'.op = "stop" /\ rlast'.err = "nil"
            /\ held'.Data = rlast'.audio.Data
      ]_vars

\* C21 witness: a later session has put another sample into the buffer where
\* the AudioData returned before holds its first one
C21_Witness ==
    /\ held.Data # <<>>
    /\ isRecording
    /\ buffer # <<>>
    /\ buffer[1] # held.Data[1]

C23_SampleConversion ==
    wav.err = "nil" =>
        /\ Len(wav.samples) = Len(wav.Data)
        /\ wav.zeros = wav.silence
        /\ \A i \in 1..Len(wav.Data) :
             LET s == wav.Data[i]
                 scaled == TruncDiv(s * 32767, SampleUnit)
             IN  IF s >= 0 - SampleUnit /\ s <= SampleUnit
                 THEN /\ wav.samples[i] = scaled
                      /\ scaled \in -32767..32767
                 ELSE /\ wav.samples[i] \in -32768..32767
                      /\ (wav.samples[i] - scaled) % 65536 = 0
                      /\ wav.samples[i] # (IF scaled > 0 THEN 32767 ELSE -32768)

\* C23 witness: the samples 1.5 and -0.625 have been written, in this order
C23_Witness ==
    /\ wav.err = "nil"
    /\ wav.Data = <<12, -5>>
    /\ wav.samples = <<-16386, -20479>>

\* the Player with its stream operations, on an installation whose MP3 chain
\* does not reach the conversion branch, and with no caller of StopPlayback
InitStream ==
    /\ InitPlaySpec
    /\ Mp3Player # "convert" \/ "ffmpeg" \notin tools

NextStream ==
    \/ \E t \in PThreads : PlayFile(t) /\ UNCHANGED <<recVars, orchVars>>
    \/ \E t \in PThreads : PlayMP3File(t) /\ UNCHANGED <<recVars, orchVars>>
    \/ \E t \in PThreads : StreamAudioFromReader(t) /\ UNCHANGED <<recVars, orchVars>>
    \/ \E t \in PThreads : PlayAudioData(t) /\ UNCHANGED <<recVars, orchVars>>
    \/ \E t \in PThreads : WaitForPlayback(t) /\ UNCHANGED <<recVars, orchVars>>
    \/ \E c \in CmdIds : MonitorStart(c) /\ UNCHANGED <<recVars, orchVars>>
    \/ \E c \in CmdIds : ProcessExit(c) /\ UNCHANGED <<recVars, orchVars>>
    \/ \E c \in CmdIds : MonitorCleanup(c) /\ UNCHANGED <<recVars, orchVars>>

\* the scheduling is that of FairPlay
SpecStream == InitStream /\ [][NextStream]_vars /\ FairPlay

\* C24: StreamAudioFromReader (format mp3 or wav) and PlayAudioData, called
\* on an idle Player, write the data to a temporary file, delegate to the
\* file-based play operation and return: the call terminates
C24_StreamCallReturns ==
    \A t \in PThreads : InNestedCall(t) ~> (ppc[t] = "idle")

\* the branches of PlayMP3File that do not transcode: mpg123 if present,
\* otherwise ffplay, and an error that leaves the Player idle when no tool of
\* the chain is present
C25_DirectChain ==
    [][(PlayReturned /\ plast'.op = "PlayMP3File" /\ ppc[plast'.thread] = "idle"
          /\ ~isPlaying /\ plast'.exists /\ Mp3Player # "convert") =>
          IF "mpg123" \in tools
          THEN plast'.err = "nil" /\ plast'.player = "mpg123" /\ isPlaying'
          ELSE IF "ffplay" \in tools
          THEN plast'.err = "nil" /\ plast'.player = "ffplay" /\ isPlaying'
          ELSE plast'.err = "NoPlayer" /\ ~isPlaying' /\ proc' = proc]_vars

\* C25: PlayMP3File selects the player by fixed priority, mpg123 if present,
\* otherwise ffplay; if neither is present but the conversion tool is, it
\* transcodes the file to a temporary WAV and plays that, returning with the
\* Player playing: once the file is transcoded the call returns
C25_TranscodedFilePlays ==
    \A t \in PThreads : (ppc[t] = "nested_playfile") ~> (ppc[t] = "idle")

\* PlayFile returned in this step from a call on an idle Player with an
\* existing file
PlayFileOnIdle ==
    /\ PlayReturned /\ plast'.op = "PlayFile" /\ ppc[plast'.thread] = "idle"
    /\ ~isPlaying /\ plast'.exists

\* C26 as stated: PlayFile on an existing uncompressed file selects aplay if
\* present, otherwise paplay; if neither is present it fails with the
\* no-player error, spawns nothing and leaves the Player idle
C26_Original ==
    [][PlayFileOnIdle =>
          IF "aplay" \in tools
          THEN plast'.err = "nil" /\ plast'.player = "aplay"
          ELSE IF "paplay" \in tools
          THEN plast'.err = "nil" /\ plast'.player = "paplay"
          ELSE /\ plast'.err = "NoPlayer" /\ plast'.cmd = 0
               /\ UNCHANGED <<isPlaying, currentCmd, proc, mon>>]_vars

\* C26, amended: PlayFile on an existing uncompressed file selects aplay if
\* present, otherwise paplay, otherwise ffplay; if none of the three is
\* present it fails with the no-player error, spawns nothing and leaves the
\* Player idle
C26_WavPlayerChain ==
    [][PlayFileOnIdle =>
          IF "aplay" \in tools
          THEN plast'.err = "nil" /\ plast'.player = "aplay"
          ELSE IF "paplay" \in tools
          THEN plast'.err = "nil" /\ plast'.player = "paplay"
          ELSE IF "ffplay" \in tools
          THEN plast'.err = "nil" /\ plast'.player = "ffplay"
          ELSE /\ plast'.err = "NoPlayer" /\ plast'.cmd = 0
               /\ UNCHANGED <<isPlaying, currentCmd, proc, mon>>]_vars

\* C26 witness: on an installation with mpg123 only, PlayFile failed with the
\* no-player error after an MP3 playback, and the Player is idle
C26_Witness ==
    /\ tools = {"mpg123"}
    /\ plast.op = "PlayFile" /\ plast.err = "NoPlayer" /\ plast.exists
    /\ ~isPlaying /\ currentCmd = 0
    /\ proc[1] # "none" /\ proc[2] = "none"

\* a Recorder call returned in this step from Close
CloseReturned == RecReturned /\ rlast'.op = "close"

\* C27: Recorder.Close force-stops any active session (afterwards
\* IsRecording() is false and the session's stream is stopped and closed) and
\* is idempotent: a second Close leaves the recorder state exactly as the
\* first left it
C27_CloseForceStopsIdempotent ==
    [][CloseReturned =>
          /\ ~isRecording'
          /\ isRecording => streams'[stream] = "closed"
          /\ rlast.op = "close" =>
                UNCHANGED <<stream, isRecording, buffer, sampleRate, channels,
                            streams, appended, held, paInitialized>>]_vars

\* C27 witness: a second Close has returned on a Recorder whose session, with
\* samples recorded, the first Close stopped
C27_Witness ==
    /\ rlast.op = "close" /\ rlast.err = "TerminateFailed"
    /\ ~isRecording /\ stream # 0 /\ streams[stream] = "closed"
    /\ buffer # <<>>
    /\ \A t \in RThreads : rpc[t] = "idle"

\* C28: a playback's monitor task clears only its own handle: after
\* StopPlayback followed by a new successful PlayFile or PlayMP3File, the
\* later exit of the earlier (killed) process does not set isPlaying to false
\* or clear currentCmd while the newer process is still running
C28_MonitorClearsOwnHandle ==
    [][\A c \in CmdIds :
          (/\ mon[c] /\ ~mon'[c] /\ proc[c] = "killed"
           /\ currentCmd \notin {0, c} /\ proc[currentCmd] = "running") =>
          (isPlaying' /\ currentCmd' = currentCmd)]_vars

\* C29: whenever IsPlaying() is true, StopPlayback either kills the player
\* process and returns success or returns an error, also when it is called
\* right after PlayFile or PlayMP3File returned and before the background
\* task has started the process: it never acts on a process that does not
\* exist yet
C29_StopBeforeProcessStarts ==
    [][(PlayReturned /\ plast'.op = "StopPlayback" /\ isPlaying) =>
          /\ plast'.err # "Panic"
          /\ plast'.err = "nil" =>
                proc[plast'.cmd] \in {"running", "exited"} /\ ~isPlaying']_vars

\* C30: under any interleaving of StopRecording with a concurrent
\* StartRecording on the same Recorder, StopRecording stops and closes the
\* stream opened by the session it terminates, never the stream of the new
\* session a StartRecording opened after isRecording was cleared
C30_StopActsOnOwnSession ==
    [][\A t \in RThreads : \A s \in StreamIds :
          (/\ rpc[t] \in {"stop_stream", "stop_close"} /\ rpc'[t] # rpc[t]
           /\ streams'[s] # streams[s]) =>
          ~(isRecording /\ stream = s)]_vars

\* the streams opened and not yet closed
OpenStreams == {s \in StreamIds : streams[s] \in {"open", "started", "stopped"}}

\* C31: at every moment at most one input stream opened by a Recorder is
\* open (opened and not yet closed), also after the stream fails to start in
\* StartRecording or fails to stop in StopRecording
C31_AtMostOneOpenStream == Cardinality(OpenStreams) <= 1

\* C32: the stream callback appends samples to the buffer only in states
\* where isRecording is true; no append happens while isRecording is false
C32_AppendOnlyWhileRecording ==
    [][(buffer' # buffer /\ Len(buffer') > Len(buffer)) => isRecording]_vars

(***************************************************************************)
(* Application: further properties                                         *)
(***************************************************************************)
\* C33: the orchestrator enters the Recording state only if capture actually
\* started: when App.StartRecording fails, the error is surfaced to the user
\* and the UI does not transition to Recording
C33_RecordingOnlyIfCaptureStarted ==
    [][(uiState' = "Recording" /\ uiState # "Recording") =>
          (isRecording /\ IsRecording)]_vars

\* an App.StartRecording or App.StopRecording call is issued and has not
\* returned: in a command's goroutine or, for the cancel key, in the event loop
RecCallInProgress ==
    \/ ~LoopIdle
    \/ \E k \in TaskIds : cmd[k].kind \in {"startrec", "stoprec"} /\ cmd[k].pc # "msg"

\* C34: after every completed App.StartRecording or App.StopRecording call,
\* whether it succeeded or failed, App.state.IsRecording equals
\* Recorder.IsRecording()
C34_AppFlagMatchesRecorder ==
    ~RecCallInProgress => (IsRecording = isRecording)

\* the application in the text-to-voice mode with the settings screen: text
\* turns, the PlayAudio goroutines of their responses, the voice sample and
\* its stop, and the player processes.  The user presses no ctrl+r and
\* cancels no turn, and one response is generated
NextSample ==
    \/ handleMainMenuKeys /\ uiState' # "ModeSelection"
    \/ handleSettingsKeys
    \/ handleConversationKeys /\ uiError' # "VoiceUnsupported"
    \/ \E k \in TaskIds : ProcessTextCmd(k)
    \/ \E k \in TaskIds : GenerateResponseReturns(k) /\ genCount' <= 1
    \/ \E k \in TaskIds : ProcessTextInputLogs(k)
    \/ \E k \in TaskIds : ProcessingResponds(k)
    \/ \E k \in TaskIds : GenerateVoiceResponseReturns(k)
    \/ \E k \in TaskIds : UpdateProcessingCompleted(k)
    \/ \E g \in GoIds : PlayAudio(g)
    \/ \E g \in GoIds : PlayAudioStarted(g)
    \/ \E g \in GoIds : PlayAudioWaits(g)
    \/ \E g \in GoIds : PlayAudioOver(g)
    \/ \E g \in SampleIds : PlayAudioSample(g)
    \/ \E c \in CmdIds : MonitorStart(c) /\ UNCHANGED <<recVars, orchVars>>
    \/ \E c \in CmdIds : ProcessExit(c) /\ UNCHANGED <<recVars, orchVars>>
    \/ \E c \in CmdIds : MonitorCleanup(c) /\ UNCHANGED <<recVars, orchVars>>

SpecSample == InitAudio /\ [][NextSample]_vars

\* an App.PlayAudio call has been issued and has not returned
PlayAudioInProgress ==
    \E g \in GoIds : bg[g] \in {"play", "started", "converting"}

\* C35: whenever the Player is playing and no App.PlayAudio or App.StopAudio
\* call is mid-execution, App.state.IsPlaying is true; this covers playback
\* started by PlayAudioSample
C35_AppKnowsPlayback ==
    (isPlaying /\ ~PlayAudioInProgress) => IsPlaying

\* command k has its ProcessingCompletedMsg delivered in this step
Delivered(k) ==
    /\ cmd[k].kind \in {"text", "voice"} /\ cmd[k].pc = "msg"
    /\ cmd'[k].kind = "none"

\* a collaborator call of command k has failed: the health check, the
\* transcription, the generation or the synthesis
CollaboratorFailed(k) == cmd[k].err # "nil" \/ cmd[k].audioErr = "TtsFailed"

\* C36: the delivery of the message of a text or voice processing command
\* puts the UI on the Conversation screen, and shows an error when a
\* collaborator call of the turn has failed
C36_TurnReturnsWithError ==
    [][ \A k \in TaskIds :
          Delivered(k) =>
            /\ uiState' = "Conversation"
            /\ CollaboratorFailed(k) => uiError' # "" ]_vars

\* GenerateResponse fails for command k in this step, and ProcessTextInput
\* returns
GenerationFails(k) == cmd[k].pc = "gen" /\ cmd'[k].pc = "respond"

\* C37: when GenerateResponse fails, ProcessTextInput returns an error,
\* leaves ConversationLog, LastMessage and LastResponse as they are and has
\* appended nothing, and IsProcessing is false when it has returned
C37_GenerationFailureChangesNothing ==
    [][ \A k \in TaskIds :
          GenerationFails(k) =>
            /\ cmd'[k].err # "nil"
            /\ cmd'[k].appends = cmd[k].appends
            /\ UNCHANGED <<ConversationLog, LastMessage, LastResponse>>
            /\ ~IsProcessing' ]_vars

\* a generation has failed after an earlier turn was logged
C37_Witness ==
    \E k \in TaskIds :
        /\ cmd[k].pc = "respond" /\ cmd[k].err = "GenFailed"
        /\ ConversationLog # <<>> /\ LastResponse # 0
        /\ ~IsProcessing

\* the "esc" branch of handleRecordingKeys returns in this step: the Recording
\* screen is left and no message is consumed
CancelReturns == uiState = "Recording" /\ uiState' = "Conversation" /\ cmd' = cmd

\* a RecordingStoppedMsg that carries a recording awaits delivery: Update
\* hands it to a ProcessVoiceCmd (ui.go:107-110)
RecordingAwaitsProcessing ==
    \E k \in TaskIds :
        cmd[k].kind = "stoprec" /\ cmd[k].pc = "msg" /\ cmd[k].err = "nil"

\* C38: when the cancellation of a recording returns, the Recorder is not
\* recording, the UI shows the Conversation screen and its recording flag is
\* off, and no recording is on its way to a transcription
C38_CancelEndsTheTurn ==
    [][ CancelReturns =>
          /\ ~isRecording' /\ ~recording'
          /\ ~RecordingAwaitsProcessing' ]_vars

\* calls of GetConversationContext on each log and each maxEntries
InitContext ==
    /\ InitApp /\ CurrentMode = TextToText /\ MaxConversationHistory = 1
    /\ InitRec /\ sampleRate = 16000 /\ channels = 1
    /\ InitPlay /\ tools = {}

NextContext ==
    CallGetConversationContext
      /\ UNCHANGED <<recVars, playVars, uiVars, appVars, cfgVars, taskVars>>

SpecContext == InitContext /\ [][NextContext]_vars

\* the entries the context of the latest call is to hold
ContextCount ==
    IF Len(context.entries) < context.maxEntries
    THEN Len(context.entries)
    ELSE context.maxEntries

\* C39: a call of GetConversationContext with maxEntries >= 1 returns two
\* messages for each of the min(len(entries), maxEntries) most recent
\* entries, in the order of the log: the user message of the entry, then its
\* assistant message; for an empty log it returns no message
C39_ContextIsRecentEntries ==
    context.maxEntries >= 1 =>
        /\ Len(context.messages) = 2 * ContextCount
        /\ \A i \in 1..ContextCount :
             LET entry == context.entries[Len(context.entries) - ContextCount + i]
             IN  /\ context.messages[2 * i - 1] =
                      [Role |-> "user", Content |-> entry.UserInput]
                 /\ context.messages[2 * i] =
                      [Role |-> "assistant", Content |-> entry.AIResponse]
        /\ context.entries = <<>> => context.messages = <<>>

\* a call on a log of more than maxEntries entries that differ
C39_Witness ==
    /\ context.maxEntries = 2
    /\ Len(context.entries) = 3
    /\ context.entries[1] # context.entries[2]
    /\ context.entries[2] # context.entries[3]
    /\ Len(context.messages) = 4

====
